---- MODULE Spec2Model ----
(***************************************************************************)
(* Auth-service: credential lockout, JWT issue/verify, session registry,   *)
(* the login / refresh / logout endpoints and the employee_id allocator.   *)
(* Time is counted in minutes since an arbitrary epoch.                    *)
(***************************************************************************)
EXTENDS Integers, Sequences, FiniteSets, TLC

VARIABLES
    now,            \* timezone.now() / datetime.utcnow(), in minutes
    ticks,          \* number of clock advances taken so far
    creds,          \* auth_user_credentials rows, by owning identity
    users,          \* Employee / SuperAdmin rows: is_active, is_deleted
    service_access, \* permissions_service_access rows for service 'hdms', by employee
    issued,         \* every token the service has signed so far
    next_jti,       \* stands for uuid.uuid4(): the next fresh token id
    refresh_tokens, \* auth_refresh_token rows
    blacklist,      \* auth_blacklisted_token rows
    fail_streak,    \* history: record_failed_login calls since the last reset
    fifth_at,       \* history: time of the 5th failure of the current streak
    logged_out,     \* history: bearer tokens that authenticated a successful logout
    revoked_at_logout, \* history: refresh tokens whose owner has since logged out
    last_call,      \* history: the last call or request and its outcome
    employee_table, \* employees_employee rows: the employee_id column
    save_pc,        \* where each create_employee request stands
    save_last,      \* the last employee_id each request's save() has read
    save_result,    \* history: the answer to each request's latest creation
    records,        \* Employee / Institution / Branch rows: id and is_deleted
    issue_log,      \* history: the ids given to new records, in creation order
    record_call,    \* history: the last create / soft_delete / restore call
    assignments,    \* employees_employeeassignment rows of one employee
    employee_code,  \* Employee.employee_code of that employee
    notifications,  \* history: code-change notifications handed to delivery
    asg_pc,         \* where each EmployeeAssignment.save call stands
    asg_inst,       \* the in-memory assignment instance of each save call
    asg_result,     \* history: how each caller's latest save ended
    login_pc,       \* where each concurrent /login request stands
    login_read,     \* the UserCredentials instance each request has loaded
    login_answer,   \* history: the status each request was answered with
    refresh_pc,     \* where each concurrent /refresh request stands
    refresh_read,   \* the RefreshToken instance each request has loaded
    hdms_role_asked \* history: the role named in the last /login-hdms body

credVars == <<creds, fail_streak, fifth_at>>
tokenVars == <<issued, next_jti, refresh_tokens, blacklist, logged_out,
               revoked_at_logout>>
authVars == <<users, service_access, tokenVars>>
allocVars == <<employee_table, save_pc, save_last, save_result>>
seqVars == <<records, issue_log, record_call>>
asgVars == <<assignments, employee_code, notifications, asg_pc, asg_inst,
             asg_result>>
refVars == <<refresh_pc, refresh_read>>
raceVars == <<login_pc, login_read, login_answer, refVars>>
restVars == <<seqVars, asgVars, raceVars>>
askVars == <<hdms_role_asked>>
vars == <<now, ticks, creds, users, service_access, issued, next_jti,
          refresh_tokens, blacklist, fail_streak, fifth_at, logged_out,
          revoked_at_logout, last_call, employee_table, save_pc, save_last,
          save_result, records, issue_log, record_call, assignments,
          employee_code, notifications, asg_pc, asg_inst, asg_result,
          login_pc, login_read, login_answer, refresh_pc, refresh_read,
          hdms_role_asked>>

-----------------------------------------------------------------------------
(* Bounds of the model *)

MaxTicks == 3
MaxAttempts == 7

(* Program constants *)

LOCK_THRESHOLD == 5
LOCK_MINUTES == 30

None == -1

-----------------------------------------------------------------------------
(* Identities *)

Employees == {"e1", "e2"}
SuperAdmins == {"s1"}
Identities == Employees \cup SuperAdmins

Passwords == {"Secret1", "Wrong1"}

\* make_password: a salted one-way hash; check_password compares through it.
make_password(raw) == <<"pbkdf2_sha256", raw>>
check_password_hash(raw, hash) == hash = make_password(raw)

-----------------------------------------------------------------------------
(* UserCredentials (authentication/models.py) *)

NewCredentials ==
    [ password_hash         |-> <<"">>,
      last_login            |-> None,
      failed_login_attempts |-> 0,
      locked_until          |-> None,
      is_deleted            |-> FALSE ]

set_password(c, raw) ==
    [c EXCEPT !.password_hash = make_password(raw),
              !.failed_login_attempts = 0,
              !.locked_until = None]

check_password(c, raw) == check_password_hash(raw, c.password_hash)

is_locked(c, t) == c.locked_until # None /\ t < c.locked_until

LockAfterFailure_NoLock(c, t) == c.locked_until
LockAfterFailure_AtSix(c, t) ==
    IF c.failed_login_attempts + 1 > LOCK_THRESHOLD
    THEN t + LOCK_MINUTES ELSE c.locked_until
LockAfterFailure_Once(c, t) ==
    IF c.failed_login_attempts + 1 = LOCK_THRESHOLD
    THEN t + LOCK_MINUTES ELSE c.locked_until
\* locked_until as record_failed_login leaves it: (re)assigned whenever the
\* incremented counter is at or above the threshold.
LockAfterFailure(c, t) ==
    IF c.failed_login_attempts + 1 >= LOCK_THRESHOLD
    THEN t + LOCK_MINUTES ELSE c.locked_until

record_failed_login(c, t) ==
    [c EXCEPT !.failed_login_attempts = @ + 1,
              !.locked_until = LockAfterFailure(c, t)]

record_successful_login_KeepCount(c, t) ==
    [c EXCEPT !.last_login = t, !.locked_until = None]
record_successful_login(c, t) ==
    [c EXCEPT !.last_login = t,
              !.failed_login_attempts = 0,
              !.locked_until = None]

-----------------------------------------------------------------------------
(* The clock *)

TickSizes == {1, 29, 30}

Tick(d) ==
    /\ ticks < MaxTicks
    /\ now' = now + d
    /\ ticks' = ticks + 1

-----------------------------------------------------------------------------
(* History of the last call: what was called, for whom, when, the credential
   row as it was before the call, and the outcome returned. *)

Call(op, who, status, error, detail) ==
    [op |-> op, who |-> who, at |-> now,
     prev |-> IF who \in Identities THEN creds[who] ELSE NewCredentials,
     password |-> "",
     status |-> status, error |-> error, detail |-> detail]

NoCall == [op |-> "init", who |-> "nobody", at |-> 0, prev |-> NewCredentials,
           password |-> "",
           status |-> 0, error |-> "", detail |-> ""]

\* The streak history follows the credential methods a call runs.
StreakAfterFailure(u) ==
    /\ fail_streak' = [fail_streak EXCEPT ![u] = @ + 1]
    /\ fifth_at' = [fifth_at EXCEPT ![u] =
                       IF fail_streak[u] + 1 = LOCK_THRESHOLD THEN now ELSE @]

StreakAfterReset(u) ==
    /\ fail_streak' = [fail_streak EXCEPT ![u] = 0]
    /\ fifth_at' = [fifth_at EXCEPT ![u] = None]

-----------------------------------------------------------------------------
(* Model-level use of UserCredentials: the methods called directly *)

CredUsers == {"e1"}

InitialCredentials == [u \in Identities |-> set_password(NewCredentials, "Secret1")]
InitialUsers == [u \in Identities |-> [is_active |-> TRUE, is_deleted |-> FALSE]]
Services == {"hdms", "sis"}
InitialAccess ==
    [e \in Employees |-> [svc \in Services |->
        [exists |-> TRUE, is_active |-> TRUE, is_deleted |-> FALSE,
         role_type |-> IF svc = "hdms" THEN "requestor" ELSE "none"]]]

\* No ServiceAccess row for the employee and the service
NoAccessRow == [exists |-> FALSE, is_active |-> FALSE, is_deleted |-> FALSE,
                role_type |-> "none"]

Requests == {"r1", "r2", "r3"}

NoRow == <<>>
NoResult == [status |-> 0, employee_id |-> NoRow, last |-> NoRow]

NoRequests ==
    /\ save_pc = [r \in Requests |-> "idle"]
    /\ save_last = [r \in Requests |-> NoRow]
    /\ save_result = [r \in Requests |-> NoResult]

EmptyAuthStore ==
    /\ now = 0
    /\ ticks = 0
    /\ users = InitialUsers
    /\ service_access = InitialAccess
    /\ issued = {}
    /\ next_jti = 1
    /\ refresh_tokens = {}
    /\ blacklist = {}
    /\ logged_out = {}
    /\ revoked_at_logout = {}
    /\ fail_streak = [u \in Identities |-> 0]
    /\ fifth_at = [u \in Identities |-> None]
    /\ last_call = NoCall

SeqModels == {"Employee", "Institution", "Branch"}

NoRecordCall == [op |-> "", model |-> "", error |-> ""]

NoRecords ==
    /\ records = [m \in SeqModels |-> {}]
    /\ issue_log = [m \in SeqModels |-> <<>>]
    /\ record_call = NoRecordCall

AsgIds == {"a1", "a2", "a3"}

AsgProcs == {"p1", "p2"}

\* No row with this primary key
NoAssignment == [exists |-> FALSE, branch |-> "", is_primary |-> FALSE,
                 is_deleted |-> FALSE]

NoInstance == [op |-> "", id |-> "", branch |-> "", is_primary |-> FALSE,
               is_deleted |-> FALSE, update_fields |-> "", loaded |-> NoAssignment]

NoSave == [op |-> "", id |-> "", error |-> "", notification |-> "",
           instance |-> NoInstance, old_code |-> <<>>, new_code |-> <<>>]

AsgIdle ==
    /\ asg_pc = [p \in AsgProcs |-> "idle"]
    /\ asg_inst = [p \in AsgProcs |-> NoInstance]
    /\ asg_result = [p \in AsgProcs |-> NoSave]

NoAssignments ==
    /\ assignments = [a \in AsgIds |-> NoAssignment]
    /\ employee_code = <<>>
    /\ notifications = <<>>
    /\ AsgIdle

LoginRequests == {"q1", "q2"}
RefreshRequests == {"f1", "f2"}

NoLogins ==
    /\ login_pc = [q \in LoginRequests |-> "idle"]
    /\ login_read = [q \in LoginRequests |-> NewCredentials]
    /\ login_answer = [q \in LoginRequests |-> 0]
    /\ refresh_pc = [f \in RefreshRequests |-> "idle"]
    /\ refresh_read = [f \in RefreshRequests |-> NoRow]

RestIdle == NoRecords /\ NoAssignments /\ NoLogins /\ hdms_role_asked = ""

EmptyStore == EmptyAuthStore /\ employee_table = {} /\ NoRequests /\ RestIdle

StoreInit == creds = InitialCredentials /\ EmptyStore

CallRecordFailedLogin(u) ==
    /\ creds[u].failed_login_attempts < MaxAttempts
    /\ creds' = [creds EXCEPT ![u] = record_failed_login(@, now)]
    /\ StreakAfterFailure(u)
    /\ last_call' = Call("record_failed_login", u, 0, "", "")
    /\ UNCHANGED <<now, ticks, authVars, allocVars, restVars, askVars>>

CallRecordSuccessfulLogin(u) ==
    /\ creds' = [creds EXCEPT ![u] = record_successful_login(@, now)]
    /\ StreakAfterReset(u)
    /\ last_call' = Call("record_successful_login", u, 0, "", "")
    /\ UNCHANGED <<now, ticks, authVars, allocVars, restVars, askVars>>

CallSetPassword(u, raw) ==
    /\ creds' = [creds EXCEPT ![u] = set_password(@, raw)]
    /\ StreakAfterReset(u)
    /\ last_call' = Call("set_password", u, 0, "", "")
    /\ UNCHANGED <<now, ticks, authVars, allocVars, restVars, askVars>>

CredTick ==
    /\ \E d \in TickSizes : Tick(d)
    /\ UNCHANGED <<credVars, authVars, allocVars, restVars, askVars, last_call>>

CredNext ==
    \/ \E u \in CredUsers : CallRecordFailedLogin(u)
    \/ \E u \in CredUsers : CallRecordSuccessfulLogin(u)
    \/ \E u \in CredUsers, raw \in Passwords : CallSetPassword(u, raw)
    \/ CredTick

SpecCred == StoreInit /\ [][CredNext]_vars

-----------------------------------------------------------------------------
(* Claims on UserCredentials *)

\* C1: from a reset credential, fewer than 5 consecutive record_failed_login
\* calls leave is_locked() false; the 5th sets locked_until to the time of
\* that call plus 30 minutes; from then on, while no reset happens,
\* is_locked() is true at every instant before that time.
C1_LockoutThreshold ==
    \A u \in CredUsers :
        /\ fail_streak[u] < LOCK_THRESHOLD => ~is_locked(creds[u], now)
        /\ fail_streak[u] = LOCK_THRESHOLD =>
               creds[u].locked_until = fifth_at[u] + LOCK_MINUTES
        /\ (fail_streak[u] >= LOCK_THRESHOLD /\ now < fifth_at[u] + LOCK_MINUTES)
               => is_locked(creds[u], now)

C1_Witness ==
    /\ fail_streak["e1"] = LOCK_THRESHOLD
    /\ now = fifth_at["e1"] + LOCK_MINUTES - 1
    /\ is_locked(creds["e1"], now)

\* C3: right after record_successful_login or set_password, whatever the
\* credential was before, failed_login_attempts is 0 and is_locked() is false.
C3_LockoutReset ==
    last_call.op \in {"record_successful_login", "set_password"} =>
        /\ creds[last_call.who].failed_login_attempts = 0
        /\ ~is_locked(creds[last_call.who], now)

C3_Witness ==
    /\ last_call.op = "record_successful_login"
    /\ last_call.prev.failed_login_attempts >= LOCK_THRESHOLD
    /\ is_locked(last_call.prev, last_call.at)
    /\ creds[last_call.who].failed_login_attempts = 0

-----------------------------------------------------------------------------
(* JWT (authentication/jwt_utils.py).  A token is its signed payload: two
   tokens are the same string exactly when signature and payload agree. *)

ACCESS_TOKEN_EXPIRY == 60
REFRESH_TOKEN_EXPIRY == 10080

JWT_SECRET == "HS256:SECRET_KEY"

\* Employee.is_superadmin: e2 carries the flag, e1 does not.
EmployeeIsSuperadmin == [e \in Employees |-> e = "e2"]

\* getattr(user, 'is_superadmin', False): the SuperAdmin model has no such
\* attribute, so the default is taken for it.
getattr_is_superadmin(user) ==
    IF user \in Employees THEN EmployeeIsSuperadmin[user] ELSE FALSE

NoClaims == <<>>

\* dict.update: keys of kwargs replace keys of payload.
Update(payload, kwargs) ==
    [k \in (DOMAIN payload) \cup (DOMAIN kwargs) |->
        IF k \in DOMAIN kwargs THEN kwargs[k] ELSE payload[k]]

\* dict.get
Get(payload, key, default) ==
    IF key \in DOMAIN payload THEN payload[key] ELSE default

jwt_encode(payload) == [sig |-> JWT_SECRET, payload |-> payload]

generate_access_token(user, kwargs, t, jti) ==
    jwt_encode(Update([user_id       |-> user,
                       is_superadmin |-> getattr_is_superadmin(user),
                       exp           |-> t + ACCESS_TOKEN_EXPIRY,
                       token_type    |-> "access",
                       jti           |-> jti],
                      kwargs))

generate_refresh_token(user, t, jti) ==
    jwt_encode([user_id    |-> user,
                exp        |-> t + REFRESH_TOKEN_EXPIRY,
                token_type |-> "refresh",
                jti        |-> jti])

\* jwt.decode succeeds: the signature is the service's and exp is in the future.
decode_token_ok(token, t) ==
    /\ token.sig = JWT_SECRET
    /\ t < Get(token.payload, "exp", t + 1)

Invalid == [ok |-> FALSE, user_id |-> "", is_superadmin |-> FALSE]

verify_typed(token, t, type) ==
    IF decode_token_ok(token, t) /\ Get(token.payload, "token_type", "") = type
    THEN [ok            |-> TRUE,
          user_id       |-> Get(token.payload, "user_id", ""),
          is_superadmin |-> Get(token.payload, "is_superadmin", FALSE)]
    ELSE Invalid

verify_access_token(token, t) == verify_typed(token, t, "access")

verify_refresh_token(token, t) == verify_typed(token, t, "refresh")

get_token_expiry(token, t) ==
    IF decode_token_ok(token, t) THEN Get(token.payload, "exp", None) ELSE None

\* Tokens no run of the service signed, which a client may still send.
ForgedTokens ==
    { [sig |-> "forged",
       payload |-> [user_id |-> "e1", is_superadmin |-> FALSE, exp |-> 1000000,
                    token_type |-> ty, jti |-> 0]] : ty \in {"access", "refresh"} }

-----------------------------------------------------------------------------
(* Session registry (authentication/models.py) *)

\* Columns of the models, as Model.__init__ and QuerySet.filter know them.
RefreshTokenFields ==
    {"id", "employee", "token", "created_at", "expires_at", "is_revoked",
     "device_info", "ip_address"}
ServiceAccessFields ==
    {"id", "employee", "service", "is_active", "granted_at", "granted_by",
     "revoked_at", "revoked_by", "notes", "is_deleted", "deleted_at",
     "deleted_by", "deletion_reason", "created_at", "updated_at"}

is_expired(row, t) == t > row.expires_at

is_valid_IgnoreRevoked(row, t) == ~is_expired(row, t)
is_valid(row, t) == ~is_expired(row, t) /\ ~row.is_revoked

is_blacklisted(token) == \E b \in blacklist : b.token = token

NewRefreshRow(employee, token, t) ==
    [employee |-> employee, token |-> token,
     expires_at |-> t + REFRESH_TOKEN_EXPIRY, is_revoked |-> FALSE]

RevokeAll_OnlyOne(rows, employee) ==
    IF \E r \in rows : r.employee = employee /\ ~r.is_revoked
    THEN LET one == CHOOSE r \in rows : r.employee = employee /\ ~r.is_revoked
         IN  (rows \ {one}) \cup {[one EXCEPT !.is_revoked = TRUE]}
    ELSE rows
\* RefreshToken.objects.filter(employee=..., is_revoked=False).update(is_revoked=True)
RevokeAll(rows, employee) ==
    { IF r.employee = employee /\ ~r.is_revoked
      THEN [r EXCEPT !.is_revoked = TRUE] ELSE r : r \in rows }

-----------------------------------------------------------------------------
(* Identity lookup *)

NoUser == "nobody"

\* Employee.employee_code / SuperAdmin.superadmin_code
LoginCode == [u \in Identities |->
                 CASE u = "e1" -> "C01-G-25-T-0001"
                   [] u = "e2" -> "C01-G-25-T-0002"
                   [] OTHER    -> "S-25-0001"]

RequestCodes == {LoginCode[u] : u \in Identities} \cup {"C09-G-25-T-0404"}

Live_ActiveOnly(u) == users[u].is_active
Live(u) == users[u].is_active /\ ~users[u].is_deleted

\* Employee.objects.get(employee_code=..., is_active=True, is_deleted=False)
EmployeeByCode(code) ==
    LET found == {e \in Employees : LoginCode[e] = code /\ Live(e)}
    IN  IF found = {} THEN NoUser ELSE CHOOSE e \in found : TRUE

\* SuperAdmin.objects.get(superadmin_code=..., is_active=True)
SuperAdminByCode(code) ==
    LET found == {a \in SuperAdmins : LoginCode[a] = code /\ Live(a)}
    IN  IF found = {} THEN NoUser ELSE CHOOSE a \in found : TRUE

\* Employee first, SuperAdmin on a miss.
UserByCode(code) ==
    IF EmployeeByCode(code) # NoUser THEN EmployeeByCode(code)
    ELSE SuperAdminByCode(code)

\* AuthBearer.authenticate: the identity a bearer token stands for, or none.
authenticate(token) ==
    IF is_blacklisted(token) THEN NoUser
    ELSE LET v == verify_access_token(token, now)
         IN  IF ~v.ok THEN NoUser
             ELSE IF v.is_superadmin
                  THEN IF v.user_id \in SuperAdmins /\ Live(v.user_id)
                       THEN v.user_id ELSE NoUser
                  ELSE IF v.user_id \in Employees /\ Live(v.user_id)
                       THEN v.user_id ELSE NoUser

-----------------------------------------------------------------------------
(* Endpoints (authentication/api.py).  Each action is one whole request. *)

MaxJti == 4

Answer(op, who, status, error, detail) ==
    last_call' = Call(op, who, status, error, detail)

\* The outcome of a login request, with the password it carried.
AnswerLogin(op, who, pw, status, error, detail) ==
    last_call' = [Call(op, who, status, error, detail) EXCEPT !.password = pw]

\* cred_filter = {'superadmin': user} if is_superadmin else {'employee': user}
FilterKey(user) == IF getattr_is_superadmin(user) THEN "superadmin" ELSE "employee"

\* A filter on a relation takes only an instance of the related model; any
\* other model instance raises ValueError.
KeyAccepts(key, user) ==
    \/ key = "employee" /\ user \in Employees
    \/ key = "superadmin" /\ user \in SuperAdmins

\* The steps every login variant runs first, in the order of the code:
\* identity found, credentials row found, lock check, password check.
CredentialGate(user, key, pw) ==
    IF user = NoUser THEN "no_user"
    ELSE IF ~KeyAccepts(key, user) THEN "ValueError"
    ELSE IF creds[user].is_deleted THEN "no_credentials"
    ELSE IF is_locked(creds[user], now) THEN "locked"
    ELSE IF ~check_password(creds[user], pw) THEN "bad_password"
    ELSE "verified"

\* Keyword arguments of the RefreshToken.objects.create and
\* ServiceAccess.objects.get calls.
LoginRowKwargs ==
    {"employee", "superadmin", "token", "expires_at", "device_info", "ip_address"}
HdmsRowKwargs == {"employee", "token", "expires_at", "device_info", "ip_address"}
SisAccessKwargs == {"employee", "superadmin", "service", "is_active", "is_deleted"}

FailedLogin(user) ==
    /\ creds[user].failed_login_attempts < MaxAttempts
    /\ creds' = [creds EXCEPT ![user] = record_failed_login(@, now)]
    /\ StreakAfterFailure(user)

SuccessfulLogin(user) ==
    /\ creds' = [creds EXCEPT ![user] = record_successful_login(@, now)]
    /\ StreakAfterReset(user)

\* generate_access_token, generate_refresh_token, RefreshToken.objects.create
IssueTokens(op, user, pw, claims, row_kwargs) ==
    LET access == generate_access_token(user, claims, now, next_jti)
        refresh == generate_refresh_token(user, now, next_jti + 1)
        owner == IF getattr_is_superadmin(user) /\ op # "login_hdms"
                 THEN NoUser ELSE user
    IN  /\ next_jti + 1 <= MaxJti
        /\ issued' = issued \cup {access, refresh}
        /\ next_jti' = next_jti + 2
        /\ IF row_kwargs \subseteq RefreshTokenFields
           THEN /\ refresh_tokens' = refresh_tokens \cup {NewRefreshRow(owner, refresh, now)}
                /\ AnswerLogin(op, user, pw, 200, "", "")
           ELSE /\ refresh_tokens' = refresh_tokens
                /\ AnswerLogin(op, user, pw, 500, "TypeError",
                               "unexpected keyword arguments")

Rejected(op, who, pw, status, error, detail) ==
    /\ AnswerLogin(op, who, pw, status, error, detail)
    /\ UNCHANGED <<credVars, issued, next_jti, refresh_tokens>>

login(code, pw) ==
    LET user == UserByCode(code)
        gate == CredentialGate(user, FilterKey(user), pw)
    IN  /\ CASE gate = "no_user" ->
                    Rejected("login", user, pw, 401, "Invalid credentials",
                             "User not found or account inactive")
              [] gate = "ValueError" ->
                    Rejected("login", user, pw, 500, "ValueError", "Cannot query")
              [] gate = "no_credentials" ->
                    Rejected("login", user, pw, 401, "Invalid credentials",
                             "No credentials found for this user")
              [] gate = "locked" ->
                    Rejected("login", user, pw, 423, "Account locked",
                             "Too many failed attempts")
              [] gate = "bad_password" ->
                    /\ FailedLogin(user)
                    /\ AnswerLogin("login", user, pw, 401, "Invalid credentials",
                              "Incorrect password")
                    /\ UNCHANGED <<issued, next_jti, refresh_tokens>>
              [] OTHER ->
                    /\ SuccessfulLogin(user)
                    /\ IssueTokens("login", user, pw, NoClaims, LoginRowKwargs)
        /\ UNCHANGED <<now, ticks, allocVars, restVars, askVars, users, service_access, blacklist,
                       logged_out, revoked_at_logout>>

HasAccess(employee, svc) ==
    /\ employee \in Employees
    /\ service_access[employee][svc].exists
    /\ service_access[employee][svc].is_active
    /\ ~service_access[employee][svc].is_deleted

login_hdms(code, pw) ==
    LET employee == EmployeeByCode(code)
        gate == CredentialGate(employee, "employee", pw)
    IN  /\ CASE gate = "no_user" ->
                    Rejected("login_hdms", employee, pw, 401, "invalid_credentials",
                             "Employee code not found or account inactive")
              [] gate = "ValueError" ->
                    Rejected("login_hdms", employee, pw, 500, "ValueError", "Cannot query")
              [] gate = "no_credentials" ->
                    Rejected("login_hdms", employee, pw, 401, "invalid_credentials",
                             "No credentials found for this employee")
              [] gate = "locked" ->
                    Rejected("login_hdms", employee, pw, 423, "account_locked",
                             "Too many failed attempts")
              [] gate = "bad_password" ->
                    /\ FailedLogin(employee)
                    /\ AnswerLogin("login_hdms", employee, pw, 401, "invalid_credentials",
                              "Incorrect password")
                    /\ UNCHANGED <<issued, next_jti, refresh_tokens>>
              [] OTHER ->
                    IF ~HasAccess(employee, "hdms")
                    THEN Rejected("login_hdms", employee, pw, 403, "no_hdms_access",
                                  "You don't have HDMS access. Contact admin.")
                    ELSE IF service_access[employee]["hdms"].role_type = "none"
                    THEN Rejected("login_hdms", employee, pw, 403, "no_hdms_role",
                                  "No HDMS role assigned. Contact admin.")
                    ELSE /\ SuccessfulLogin(employee)
                         /\ IssueTokens("login_hdms", employee, pw,
                                [role |-> service_access[employee]["hdms"].role_type],
                                HdmsRowKwargs)
        /\ UNCHANGED <<now, ticks, allocVars, restVars, users, service_access, blacklist,
                       logged_out, revoked_at_logout>>

\* HdmsLoginRequest(Schema): the fields employee_code and password; any other
\* field of the request body is dropped.
HdmsLoginRequest(body) == [f \in {"employee_code", "password"} |-> body[f]]

\* POST /login-hdms with a JSON body
post_login_hdms(body) ==
    LET payload == HdmsLoginRequest(body)
    IN  /\ login_hdms(payload.employee_code, payload.password)
        /\ hdms_role_asked' = Get(body, "role", "")

login_sis(code, pw) ==
    LET user == UserByCode(code)
        gate == CredentialGate(user, FilterKey(user), pw)
    IN  /\ CASE gate = "no_user" ->
                    Rejected("login_sis", user, pw, 401, "invalid_credentials", "User not found")
              [] gate = "ValueError" ->
                    Rejected("login_sis", user, pw, 500, "ValueError", "Cannot query")
              [] gate = "no_credentials" ->
                    Rejected("login_sis", user, pw, 401, "invalid_credentials",
                             "No credentials found")
              [] gate = "locked" ->
                    Rejected("login_sis", user, pw, 423, "account_locked",
                             "Too many failed attempts")
              [] gate = "bad_password" ->
                    /\ FailedLogin(user)
                    /\ AnswerLogin("login_sis", user, pw, 401, "invalid_credentials",
                              "Incorrect password")
                    /\ UNCHANGED <<issued, next_jti, refresh_tokens>>
              [] OTHER ->
                    IF ~(SisAccessKwargs \subseteq ServiceAccessFields)
                    THEN Rejected("login_sis", user, pw, 500, "FieldError",
                                  "Cannot resolve keyword 'superadmin' into field")
                    ELSE IF ~HasAccess(user, "sis")
                    THEN Rejected("login_sis", user, pw, 403, "no_sis_access",
                                  "You don't have SIS access assigned.")
                    ELSE /\ SuccessfulLogin(user)
                         /\ IssueTokens("login_sis", user, pw, NoClaims, LoginRowKwargs)
        /\ UNCHANGED <<now, ticks, allocVars, restVars, askVars, users, service_access, blacklist,
                       logged_out, revoked_at_logout>>

\* What refresh_token decides for a presented token, in the order of the code.
refresh_outcome(token) ==
    LET v == verify_refresh_token(token, now)
        rows == {r \in refresh_tokens : r.token = token /\ r.employee = v.user_id}
    IN  IF ~v.ok THEN "invalid"
        ELSE IF v.is_superadmin /\ ~({"token", "superadmin"} \subseteq RefreshTokenFields)
             THEN "FieldError"
        ELSE IF rows = {} THEN "not_found"
        ELSE IF ~is_valid(CHOOSE r \in rows : TRUE, now) THEN "revoked_or_expired"
        ELSE IF ~(v.user_id \in Employees /\ Live(v.user_id)) THEN "user_not_found"
        ELSE "ok"

refresh_token(token) ==
    LET outcome == refresh_outcome(token)
        user == token.payload.user_id
    IN  /\ CASE outcome = "invalid" ->
                    /\ Answer("refresh", NoUser, 401, "Invalid refresh token",
                              "Token is invalid or expired")
                    /\ UNCHANGED <<issued, next_jti>>
              [] outcome = "FieldError" ->
                    /\ Answer("refresh", NoUser, 401, "Refresh failed", "FieldError")
                    /\ UNCHANGED <<issued, next_jti>>
              [] outcome = "not_found" ->
                    /\ Answer("refresh", NoUser, 401, "Invalid refresh token",
                              "Token not found in database")
                    /\ UNCHANGED <<issued, next_jti>>
              [] outcome = "revoked_or_expired" ->
                    /\ Answer("refresh", user, 401, "Invalid refresh token",
                              "Token has been revoked or expired")
                    /\ UNCHANGED <<issued, next_jti>>
              [] outcome = "user_not_found" ->
                    /\ Answer("refresh", user, 401, "User not found",
                              "Account is inactive or deleted")
                    /\ UNCHANGED <<issued, next_jti>>
              [] OTHER ->
                    /\ next_jti <= MaxJti
                    /\ issued' = issued \cup
                           {generate_access_token(user, NoClaims, now, next_jti)}
                    /\ next_jti' = next_jti + 1
                    /\ Answer("refresh", user, 200, "", "")
        /\ UNCHANGED <<now, ticks, allocVars, restVars, askVars, credVars, users, service_access,
                       refresh_tokens, blacklist, logged_out, revoked_at_logout>>

\* The token logout puts on the blacklist: payload.access_token, the token
\* of the request body.
Blacklisted(bearer, body) == body

logout(bearer, body) ==
    LET auth == authenticate(bearer)
        token == Blacklisted(bearer, body)
        expiry == get_token_expiry(token, now)
        row == [token |-> token,
                expires_at |-> IF expiry = None THEN now + 60 ELSE expiry,
                reason |-> "logout"]
    IN  /\ IF auth = NoUser
           THEN /\ Answer("logout", NoUser, 401, "Unauthorized", "")
                /\ UNCHANGED <<refresh_tokens, blacklist, logged_out, revoked_at_logout>>
           ELSE IF is_blacklisted(token)
           THEN /\ Answer("logout", auth, 401, "Logout failed", "IntegrityError")
                /\ UNCHANGED <<refresh_tokens, blacklist, logged_out, revoked_at_logout>>
           ELSE IF ~KeyAccepts("employee", auth)
           THEN /\ blacklist' = blacklist \cup {row}
                /\ Answer("logout", auth, 401, "Logout failed", "ValueError")
                /\ UNCHANGED <<refresh_tokens, logged_out, revoked_at_logout>>
           ELSE /\ blacklist' = blacklist \cup {row}
                /\ refresh_tokens' = RevokeAll(refresh_tokens, auth)
                /\ logged_out' = logged_out \cup {bearer}
                /\ revoked_at_logout' = revoked_at_logout \cup
                       {r.token : r \in {x \in refresh_tokens : x.employee = auth}}
                /\ Answer("logout", auth, 200, "Logged out successfully", "")
        /\ UNCHANGED <<now, ticks, allocVars, restVars, askVars, credVars, users, service_access, issued, next_jti>>

get_current_user(bearer) ==
    LET auth == authenticate(bearer)
    IN  /\ IF auth = NoUser
           THEN Answer("me", NoUser, 401, "Unauthorized", "")
           ELSE Answer("me", auth, 200, "", "")
        /\ UNCHANGED <<now, ticks, credVars, authVars, allocVars, restVars, askVars>>

-----------------------------------------------------------------------------
(* Administration *)

\* EmployeeAdmin.deactivate_employees / activate_employees
set_employees_active(e, flag) ==
    /\ users[e].is_active # flag
    /\ users' = [users EXCEPT ![e].is_active = flag]
    /\ UNCHANGED <<now, ticks, allocVars, restVars, askVars, credVars, service_access, tokenVars, last_call>>

\* BlacklistedToken.cleanup_expired
cleanup_expired ==
    /\ \E b \in blacklist : b.expires_at < now
    /\ blacklist' = {b \in blacklist : ~(b.expires_at < now)}
    /\ UNCHANGED <<now, ticks, allocVars, restVars, askVars, credVars, users, service_access, issued, next_jti,
                   refresh_tokens, logged_out, revoked_at_logout, last_call>>

-----------------------------------------------------------------------------
(* Lockout through the login endpoints.  One employee holds credentials:
   employee creation makes no credentials row, a credentials row is made
   later for the employees that are given a password. *)

NoCredentials == [NewCredentials EXCEPT !.is_deleted = TRUE]

CredentialsOnlyFor(who) ==
    [u \in Identities |->
        IF u = who \/ u \in SuperAdmins THEN InitialCredentials[u] ELSE NoCredentials]

LockInit ==
    /\ \E who \in Employees : creds = CredentialsOnlyFor(who)
    /\ EmptyStore

LockTickSizes == {30}

LockTick ==
    /\ \E d \in LockTickSizes : Tick(d)
    /\ UNCHANGED <<credVars, authVars, allocVars, restVars, askVars, last_call>>

LockNext ==
    \/ \E code \in RequestCodes, pw \in Passwords : login(code, pw)
    \/ \E code \in RequestCodes, pw \in Passwords :
           post_login_hdms([employee_code |-> code, password |-> pw])
    \/ \E code \in RequestCodes, pw \in Passwords : login_sis(code, pw)
    \/ LockTick

SpecLock == LockInit /\ [][LockNext]_vars

-----------------------------------------------------------------------------
(* Claims on the lockout window of the login endpoints *)

LoginOps == {"login", "login_hdms", "login_sis"}

\* C2: a login, login_hdms or login_sis request for an active identity whose
\* credential is locked at the time of the request is answered 423, whatever
\* the password, and leaves failed_login_attempts, locked_until and last_login
\* as they were.
C2_LockedLoginRejected ==
    (/\ last_call.op \in LoginOps
     /\ last_call.who \in Identities
     /\ ~last_call.prev.is_deleted
     /\ is_locked(last_call.prev, last_call.at)) =>
        /\ last_call.status = 423
        /\ creds[last_call.who] = last_call.prev

\* The locked outcome itself: an employee without the superadmin flag, locked,
\* is answered 423 by each of the three endpoints.
C2_Witness ==
    /\ last_call.op = "login_sis"
    /\ last_call.who = "e1"
    /\ last_call.password = "Secret1"
    /\ is_locked(last_call.prev, last_call.at)
    /\ last_call.status = 423

\* C5 as claimed: a login with a wrong password on an unlocked credential whose
\* failed_login_attempts is 4 is answered 423.
C5_Original ==
    (/\ last_call.op = "login"
     /\ last_call.who \in Identities
     /\ ~last_call.prev.is_deleted
     /\ last_call.prev.failed_login_attempts = LOCK_THRESHOLD - 1
     /\ ~is_locked(last_call.prev, last_call.at)
     /\ ~check_password(last_call.prev, last_call.password)) =>
        last_call.status = 423

\* C5 as amended: such a login is never answered 423.  Where the credentials
\* lookup succeeds it is answered 401 invalid credentials, and it is this
\* request that takes the counter to 5 and locks the credential for 30
\* minutes; 423 is the answer to the requests that follow inside the window.
C5_FifthFailureIs401ThenLocked ==
    (/\ last_call.op = "login"
     /\ last_call.who \in Identities
     /\ ~last_call.prev.is_deleted
     /\ last_call.prev.failed_login_attempts = LOCK_THRESHOLD - 1
     /\ ~is_locked(last_call.prev, last_call.at)
     /\ ~check_password(last_call.prev, last_call.password)) =>
        /\ last_call.status # 423
        /\ KeyAccepts(FilterKey(last_call.who), last_call.who) =>
            /\ last_call.status = 401
            /\ last_call.detail = "Incorrect password"
            /\ creds[last_call.who].failed_login_attempts = LOCK_THRESHOLD
            /\ creds[last_call.who].locked_until = last_call.at + LOCK_MINUTES

C5_Witness ==
    /\ last_call.op = "login"
    /\ last_call.who = "e1"
    /\ last_call.prev.failed_login_attempts = LOCK_THRESHOLD - 1
    /\ ~is_locked(last_call.prev, last_call.at)
    /\ last_call.password = "Wrong1"
    /\ last_call.status = 401
    /\ is_locked(creds["e1"], now)

-----------------------------------------------------------------------------
(* Sessions: sign-in, refresh, logout, whoami, administration, the clock *)

\* The employee who signs in and out, and the accounts administration acts on.
SessionEmployees == {"e1"}

SessionInit ==
    /\ \E who \in SessionEmployees : creds = CredentialsOnlyFor(who)
    /\ EmptyStore

SessionTickSizes == {60, 10080}

\* Tokens a client may present: those the service signed, and forged ones.
Presentable == issued \cup ForgedTokens

\* The access_token field of a logout body: the bearer token again, or
\* another access token.
LogoutBodies(bearer) ==
    {bearer} \cup {t \in ForgedTokens : t.payload.token_type = "access"}

MaxSessionTicks == 1

SessionTick ==
    /\ ticks < MaxSessionTicks
    /\ \E d \in SessionTickSizes : Tick(d)
    /\ UNCHANGED <<credVars, authVars, allocVars, restVars, askVars, last_call>>

SessionNext ==
    \/ \E e \in SessionEmployees :
           post_login_hdms([employee_code |-> LoginCode[e], password |-> "Secret1"])
    \/ \E token \in Presentable : refresh_token(token)
    \/ \E bearer \in Presentable :
           \E body \in LogoutBodies(bearer) : logout(bearer, body)
    \/ \E bearer \in Presentable : get_current_user(bearer)
    \/ \E e \in SessionEmployees, flag \in BOOLEAN : set_employees_active(e, flag)
    \/ cleanup_expired
    \/ SessionTick

SpecSession == SessionInit /\ [][SessionNext]_vars

-----------------------------------------------------------------------------
(* Claims on sessions *)

\* The two conditions of the claim, spelled out on the token and on the rows.
SignedUnexpiredRefresh(token) ==
    /\ token.sig = JWT_SECRET
    /\ "exp" \in DOMAIN token.payload
    /\ now < token.payload.exp
    /\ "token_type" \in DOMAIN token.payload
    /\ token.payload.token_type = "refresh"

HasLiveRow(token) ==
    \E r \in refresh_tokens :
        /\ r.token = token
        /\ r.employee = token.payload.user_id
        /\ ~r.is_revoked
        /\ ~(now > r.expires_at)

C8_LoggedOutBearerRejected ==
    \A token \in logged_out : authenticate(token) = NoUser

\* A logout that named its own bearer token in the body: that token is on the
\* blacklist afterwards.
C8_Witness ==
    /\ last_call.op = "logout"
    /\ last_call.status = 200
    /\ \E token \in logged_out : is_blacklisted(token)

\* C9: every RefreshToken row that its owner's successful logout found is
\* revoked, and stays so; a refresh_token request with its token is rejected.
C9_LogoutRevokesAllSessions ==
    \A token \in revoked_at_logout :
        /\ \A r \in refresh_tokens : r.token = token => r.is_revoked
        /\ refresh_outcome(token) # "ok"

\* Two sign-ins, one logout: both rows revoked while both tokens still verify.
C9_Witness ==
    /\ Cardinality(revoked_at_logout) >= 2
    /\ \A token \in revoked_at_logout : verify_refresh_token(token, now).ok
    /\ \A r \in refresh_tokens : r.is_revoked

-----------------------------------------------------------------------------
(* The token functions called directly (authentication/jwt_utils.py) *)

\* Keyword arguments a caller may hand to generate_access_token.
ExtraClaims ==
    { NoClaims,
      [role |-> "requestor"],
      [token_type |-> "refresh"],
      [role |-> "admin", token_type |-> "refresh"] }

MaxGenerated == 2

Generated(op, user, token) ==
    /\ next_jti <= MaxGenerated
    /\ issued' = issued \cup {token}
    /\ next_jti' = next_jti + 1
    /\ last_call' = [token |-> token] @@ Call(op, user, 0, "", "")
    /\ UNCHANGED <<now, ticks, allocVars, restVars, askVars, credVars, users, service_access,
                   refresh_tokens, blacklist, logged_out, revoked_at_logout>>

CallGenerateAccessToken(user, kwargs) ==
    Generated("generate_access_token", user,
              generate_access_token(user, kwargs, now, next_jti))

CallGenerateRefreshToken(user) ==
    Generated("generate_refresh_token", user,
              generate_refresh_token(user, now, next_jti))

TokTickSizes == {59, 60, 10080}

TokTick ==
    /\ \E d \in TokTickSizes : Tick(d)
    /\ UNCHANGED <<credVars, authVars, allocVars, restVars, askVars, last_call>>

TokNext ==
    \/ \E user \in Identities, kwargs \in ExtraClaims :
           CallGenerateAccessToken(user, kwargs)
    \/ \E user \in Identities : CallGenerateRefreshToken(user)
    \/ TokTick

SpecTok == StoreInit /\ [][TokNext]_vars

\* C7: a token made by generate_refresh_token is rejected by
\* verify_access_token and by AuthBearer.authenticate; a token made by
\* generate_access_token, whatever its extra claims, is rejected by
\* verify_refresh_token and by refresh_token.
C7_TokenTypeIsolation ==
    /\ last_call.op = "generate_refresh_token" =>
           /\ ~verify_access_token(last_call.token, now).ok
           /\ authenticate(last_call.token) = NoUser
    /\ last_call.op = "generate_access_token" =>
           /\ ~verify_refresh_token(last_call.token, now).ok
           /\ refresh_outcome(last_call.token) # "ok"

\* The direction that holds: a refresh token, still unexpired, refused as an
\* access token.
C7_Witness ==
    /\ last_call.op = "generate_refresh_token"
    /\ decode_token_ok(last_call.token, now)
    /\ ~verify_access_token(last_call.token, now).ok

-----------------------------------------------------------------------------
(* employee_id allocation (employees/models.py, Employee.save) under
   concurrent create_employee requests.  An employee_id is the text after
   "IAK-", held as its sequence of decimal digits. *)

MaxRows == 4

RECURSIVE str(_)
\* str(num) of a non-negative integer
str(num) == IF num < 10 THEN <<num>> ELSE Append(str(num \div 10), num % 10)

RECURSIVE int(_)
\* int(text), leading zeros allowed
int(text) ==
    IF Len(text) = 0 THEN 0
    ELSE 10 * int(SubSeq(text, 1, Len(text) - 1)) + text[Len(text)]

RECURSIVE zfill(_, _)
\* f"{num:0{padding}d}": zeros on the left up to the width
zfill(text, width) == IF Len(text) >= width THEN text ELSE zfill(<<0>> \o text, width)

\* padding = 4 if num < 10000 else len(str(num))
FormatEmployeeId(num) ==
    LET padding == IF num < 10000 THEN 4 ELSE Len(str(num))
    IN  zfill(str(num), padding)

RECURSIVE TextLess(_, _)
\* The order of a CharField under order_by: character by character, a proper
\* prefix first.
TextLess(a, b) ==
    IF Len(b) = 0 THEN FALSE
    ELSE IF Len(a) = 0 THEN TRUE
    ELSE IF a[1] # b[1] THEN a[1] < b[1]
    ELSE TextLess(Tail(a), Tail(b))

\* Employee.all_objects.all().order_by('employee_id').last()
LastEmployeeId(table) ==
    IF table = {} THEN NoRow
    ELSE CHOOSE x \in table : \A y \in table : y = x \/ TextLess(y, x)

\* num = int(last.employee_id.split('-')[-1]) + 1 if last ... else 1
NextEmployeeId(last) ==
    FormatEmployeeId(IF last # NoRow THEN int(last) + 1 ELSE 1)

InitialRowCounts == {0, 2}

AllocInit ==
    /\ creds = InitialCredentials
    /\ EmptyAuthStore
    /\ \E n \in InitialRowCounts : employee_table = {FormatEmployeeId(i) : i \in 1..n}
    /\ NoRequests
    /\ RestIdle

\* Employee.save, first half: the request reads the last employee_id.
SaveRead(r) ==
    /\ save_pc[r] = "idle"
    /\ Cardinality(employee_table) < MaxRows
    /\ save_last' = [save_last EXCEPT ![r] = LastEmployeeId(employee_table)]
    /\ save_pc' = [save_pc EXCEPT ![r] = "read"]
    /\ UNCHANGED <<employee_table, save_result>>
    /\ UNCHANGED <<now, ticks, credVars, authVars, last_call, restVars, askVars>>

\* Employee.save, second half: the INSERT.  employee_id is unique: a second
\* row with a stored value raises IntegrityError, which create_employee
\* answers with 400.
SaveWrite(r) ==
    LET id == NextEmployeeId(save_last[r])
    IN  /\ save_pc[r] = "read"
        /\ IF id \in employee_table
           THEN /\ save_result' = [save_result EXCEPT ![r] =
                       [status |-> 400, employee_id |-> NoRow, last |-> save_last[r]]]
                /\ UNCHANGED employee_table
           ELSE /\ employee_table' = employee_table \cup {id}
                /\ save_result' = [save_result EXCEPT ![r] =
                       [status |-> 201, employee_id |-> id, last |-> save_last[r]]]
        /\ save_pc' = [save_pc EXCEPT ![r] = "idle"]
        /\ UNCHANGED save_last
        /\ UNCHANGED <<now, ticks, credVars, authVars, last_call, restVars, askVars>>

AllocNext ==
    \/ \E r \in Requests : SaveRead(r)
    \/ \E r \in Requests : SaveWrite(r)

SpecAlloc == AllocInit /\ [][AllocNext]_vars

\* C10: creations whose saves ran concurrently (each read the same last
\* employee_id, so each read before any of them wrote) all succeed, with
\* pairwise distinct employee_id values.
C10_ConcurrentSavesAllSucceed ==
    \A p \in Requests, q \in Requests :
        (/\ p # q
         /\ save_result[p].status # 0
         /\ save_result[q].status # 0
         /\ save_result[p].last = save_result[q].last) =>
            /\ save_result[p].status = 201
            /\ save_result[q].status = 201
            /\ save_result[p].employee_id # save_result[q].employee_id

\* Two requests that read the same last employee_id: one row stored, the
\* other request answered 400.
C10_Witness ==
    \E p \in Requests, q \in Requests :
        /\ save_result[p].status = 201
        /\ save_result[q].status = 400
        /\ save_result[p].last = save_result[q].last

-----------------------------------------------------------------------------
(* Sequence numbers of Employee, Institution and Branch (employees/models.py)
   under sequential creations, soft_delete and restore.  An id is the text
   after its prefix ("IAK-", "INST-", "BRANCH-"), held as its sequence of
   decimal digits; rows of one table share the prefix, so the order of the
   ids is the order of these digits. *)

MaxCreated == 3

\* f"INST-{new_num:03d}"
FormatInstId(num) == zfill(str(num), 3)

\* f"BRANCH-{new_num:03d}"
FormatBranchId(num) == zfill(str(num), 3)

\* Model.all_objects.all(): every row, soft-deleted ones included
all_objects(rows) == {r.id : r \in rows}

\* Institution.save: the id after the last inst_id, or 1 for an empty table
NextInstId(last) == FormatInstId(IF last # NoRow THEN int(last) + 1 ELSE 1)

\* Branch.save: the id after the last branch_id, or 1 for an empty table
NextBranchId(last) == FormatBranchId(IF last # NoRow THEN int(last) + 1 ELSE 1)

\* The id save() gives a record that has none yet.
NewId(model, rows) ==
    LET last == LastEmployeeId(all_objects(rows))
    IN  CASE model = "Employee" -> NextEmployeeId(last)
          [] model = "Institution" -> NextInstId(last)
          [] model = "Branch" -> NextBranchId(last)

\* SoftDeleteModel.soft_delete with the row gone from the table instead
SoftDeleted_Removes(rows, id) == {r \in rows : r.id # id}

\* SoftDeleteModel.soft_delete: the row stays, flagged is_deleted
SoftDeleted(rows, id) ==
    {IF r.id = id THEN [r EXCEPT !.is_deleted = TRUE] ELSE r : r \in rows}

\* SoftDeleteModel.restore: the flag cleared
Restored(rows, id) ==
    {IF r.id = id THEN [r EXCEPT !.is_deleted = FALSE] ELSE r : r \in rows}

\* The last numbers a table may already hold when the model starts: none, or
\* one short of the last number that fits the padding.
InitialLast(model) == IF model = "Employee" THEN {0, 9998} ELSE {0, 998}

FormatId(model, num) ==
    IF model = "Employee" THEN FormatEmployeeId(num)
    ELSE IF model = "Institution" THEN FormatInstId(num)
    ELSE FormatBranchId(num)

InitialIds(model, n) == IF n = 0 THEN <<>> ELSE <<FormatId(model, n)>>

\* Records created since the start: a log that does not begin at number 1
\* begins with the record the table already held.
CreatedIn(model) ==
    LET log == issue_log[model]
    IN  IF log # <<>> /\ int(log[1]) > 1 THEN Len(log) - 1 ELSE Len(log)

Created == CreatedIn("Employee") + CreatedIn("Institution") + CreatedIn("Branch")

SeqInit ==
    /\ creds = InitialCredentials
    /\ EmptyAuthStore
    /\ employee_table = {}
    /\ NoRequests
    /\ hdms_role_asked = ""
    /\ NoAssignments
    /\ NoLogins
    /\ record_call = NoRecordCall
    /\ \E n \in [SeqModels -> {0, 998, 9998}] :
          /\ \A m \in SeqModels : n[m] \in InitialLast(m)
          /\ issue_log = [m \in SeqModels |-> InitialIds(m, n[m])]
          /\ records = [m \in SeqModels |->
                 {[id |-> InitialIds(m, n[m])[i], is_deleted |-> FALSE] :
                      i \in 1..Len(InitialIds(m, n[m]))}]

\* Model.objects.create / Model(...).save() of a record without an id.  The
\* id column is unique: a stored value raises IntegrityError and no row is
\* written.
create(model) ==
    LET id == NewId(model, records[model])
    IN  /\ Created < MaxCreated
        /\ IF id \in all_objects(records[model])
           THEN /\ record_call' = [op |-> "create", model |-> model,
                                   error |-> "IntegrityError"]
                /\ UNCHANGED <<records, issue_log>>
           ELSE /\ records' = [records EXCEPT ![model] =
                       @ \cup {[id |-> id, is_deleted |-> FALSE]}]
                /\ issue_log' = [issue_log EXCEPT ![model] = Append(@, id)]
                /\ record_call' = [op |-> "create", model |-> model, error |-> ""]
        /\ UNCHANGED <<now, ticks, credVars, authVars, last_call, allocVars, asgVars, raceVars, askVars>>

\* instance.soft_delete()
soft_delete(model, id) ==
    /\ records' = [records EXCEPT ![model] = SoftDeleted(@, id)]
    /\ record_call' = [op |-> "soft_delete", model |-> model, error |-> ""]
    /\ UNCHANGED issue_log
    /\ UNCHANGED <<now, ticks, credVars, authVars, last_call, allocVars, asgVars, raceVars, askVars>>

\* instance.restore()
restore(model, id) ==
    /\ records' = [records EXCEPT ![model] = Restored(@, id)]
    /\ record_call' = [op |-> "restore", model |-> model, error |-> ""]
    /\ UNCHANGED issue_log
    /\ UNCHANGED <<now, ticks, credVars, authVars, last_call, allocVars, asgVars, raceVars, askVars>>

SeqNext ==
    \/ \E m \in SeqModels : create(m)
    \/ \E m \in SeqModels : \E id \in all_objects(records[m]) : soft_delete(m, id)
    \/ \E m \in SeqModels : \E id \in all_objects(records[m]) : restore(m, id)

SpecSeq == SeqInit /\ [][SeqNext]_vars

\* C11: under sequential creations, soft_delete and restore of Employee,
\* Institution and Branch records, every new record's number is greater than
\* the number of every record created before it, soft-deleted ones included,
\* and the id of a soft-deleted record is never given to another record.
C11_SequenceNeverReused ==
    \A m \in SeqModels :
        /\ \A i, j \in 1..Len(issue_log[m]) :
               i < j => int(issue_log[m][i]) < int(issue_log[m][j])
        /\ \A r \in records[m] :
               r.is_deleted =>
                   Cardinality({i \in 1..Len(issue_log[m]) : issue_log[m][i] = r.id}) = 1

\* A record created while the record created just before it is soft-deleted.
C11_Witness ==
    /\ record_call.op = "create"
    /\ record_call.error = ""
    /\ LET log == issue_log[record_call.model]
       IN  /\ Len(log) >= 2
           /\ [id |-> log[Len(log) - 1], is_deleted |-> TRUE] \in records[record_call.model]
           /\ int(log[Len(log)]) = int(log[Len(log) - 1]) + 1

-----------------------------------------------------------------------------
(* EmployeeAssignment.save (employees/models.py 545-580): the primary flag
   and the composite employee code.  All assignments belong to one employee;
   they differ in their branch, the other parts of the code being fixed.  A
   code is the tuple of the parts joined by "-". *)

Branches == {"C01", "C02"}

\* The department of the assignments: local to an institution.
Department == [is_global |-> FALSE, dept_code |-> "ACAD", organization |-> "AKF"]

\* The order of the claimed priority: branch, institution, organization, and
\* the department code for a global department last
Prefix_BranchFirst(branch, institution, department) ==
    IF branch # "" THEN branch
    ELSE IF institution # "" THEN institution
    ELSE IF department.organization # "" THEN department.organization
    ELSE department.dept_code

\* The unit prefix of the code
Prefix(branch, institution, department) ==
    IF department.is_global THEN department.dept_code
    ELSE IF branch # "" THEN branch
    ELSE IF institution # "" THEN institution
    ELSE IF department.organization # "" THEN department.organization
    ELSE department.dept_code

\* self.shift[0].upper() if self.shift != 'general' else 'G'
shift_code(shift) ==
    CASE shift = "general" -> "G"
      [] shift = "morning" -> "M"
      [] shift = "afternoon" -> "A"
      [] shift = "night" -> "N"
      [] shift = "hourly" -> "H"
      [] shift = "both" -> "B"

\* new_code = f"{prefix}-{shift_code}-{year}-{role}-{seq}"
compose_code(instance) ==
    <<Prefix(instance.branch, Get(instance, "institution", ""),
             Get(instance, "department", Department)),
      shift_code("general"), "25", "T", "0001">>

\* old_code != new_code, taken as always true
CodeChanged_Always(old_code, new_code) == TRUE

\* old_code != new_code
CodeChanged(old_code, new_code) == old_code # new_code

\* employees/notifications.py: def send_employee_code_notification(employee,
\* old_code, new_code).  A call with another number of positional arguments
\* raises TypeError before the body runs; send_mail has fail_silently=True.
send_employee_code_notification(args) ==
    IF Len(args) # 3 THEN "TypeError"
    ELSE IF args[2] = args[3] THEN "returned"
    ELSE "sent"

\* EmployeeAssignment.objects: the rows that are not soft-deleted
objects(table) == {a \in AsgIds : table[a].exists /\ ~table[a].is_deleted}

\* The demotion left out
Demoted_Nothing(table, pk) == table

\* EmployeeAssignment.objects.filter(employee=self.employee)
\*     .exclude(pk=self.pk).update(is_primary=False)
Demoted(table, pk) ==
    [a \in AsgIds |->
        IF a \in objects(table) /\ a # pk
        THEN [table[a] EXCEPT !.is_primary = FALSE]
        ELSE table[a]]

\* super().save(): all fields written, or only those of update_fields
Written(table, instance) ==
    [table EXCEPT ![instance.id] =
        IF instance.update_fields = "all"
        THEN [exists |-> TRUE, branch |-> instance.branch,
              is_primary |-> instance.is_primary,
              is_deleted |-> instance.is_deleted]
        ELSE [@ EXCEPT !.is_deleted = instance.is_deleted]]

\* An instance as loaded from its row, or built for a new row
Instance(op, id, row, update_fields) ==
    [op |-> op, id |-> id, branch |-> row.branch, is_primary |-> row.is_primary,
     is_deleted |-> row.is_deleted, update_fields |-> update_fields,
     loaded |-> assignments[id]]

\* save(), lines 546-547: a primary instance first demotes the other live
\* assignments of its employee.
save_demote(p, instance) ==
    /\ asg_pc[p] = "idle"
    /\ assignments' = IF instance.is_primary
                      THEN Demoted(assignments, instance.id)
                      ELSE assignments
    /\ asg_inst' = [asg_inst EXCEPT ![p] = instance]
    /\ asg_pc' = [asg_pc EXCEPT ![p] = "demoted"]
    /\ UNCHANGED <<employee_code, notifications, asg_result>>
    /\ UNCHANGED <<now, ticks, credVars, authVars, last_call, allocVars, seqVars, raceVars, askVars>>

\* save(), lines 549-580: the row's own write, then for a primary instance
\* the code is composed and, if it differs from the stored one, stored and
\* passed to the notification.  Nothing in save() catches an exception of the
\* notification call.
save_write(p) ==
    LET instance == asg_inst[p]
        new_code == compose_code(instance)
        old_code == employee_code
        changes == instance.is_primary /\ CodeChanged(old_code, new_code)
        called == send_employee_code_notification(<<"e1", new_code>>)
    IN  /\ asg_pc[p] = "demoted"
        /\ assignments' = Written(assignments, instance)
        /\ employee_code' = IF changes THEN new_code ELSE employee_code
        /\ notifications' = IF changes /\ called = "sent"
                            THEN Append(notifications, <<"e1", new_code>>)
                            ELSE notifications
        /\ asg_result' = [asg_result EXCEPT ![p] =
               [op |-> instance.op, id |-> instance.id,
                error |-> IF changes /\ called = "TypeError" THEN called ELSE "",
                notification |-> IF changes THEN called ELSE "",
                instance |-> instance,
                old_code |-> old_code,
                new_code |-> IF instance.is_primary THEN new_code ELSE <<>>]]
        /\ asg_inst' = [asg_inst EXCEPT ![p] = NoInstance]
        /\ asg_pc' = [asg_pc EXCEPT ![p] = "idle"]
        /\ UNCHANGED <<now, ticks, credVars, authVars, last_call, allocVars, seqVars, raceVars, askVars>>

\* EmployeeAssignment(...).save() of a new assignment
AsgCreate(p, a, branch, is_primary) ==
    /\ ~assignments[a].exists
    /\ save_demote(p, Instance("create", a,
           [branch |-> branch, is_primary |-> is_primary, is_deleted |-> FALSE], "all"))

\* An assignment loaded, its branch and primary flag set, and saved
AsgSave(p, a, branch, is_primary) ==
    /\ a \in objects(assignments)
    /\ save_demote(p, Instance("save", a,
           [branch |-> branch, is_primary |-> is_primary, is_deleted |-> FALSE], "all"))

\* assignment.soft_delete(): save(update_fields=[is_deleted, ...])
AsgSoftDelete(p, a) ==
    /\ a \in objects(assignments)
    /\ save_demote(p, Instance("soft_delete", a,
           [assignments[a] EXCEPT !.is_deleted = TRUE], "deletion"))

\* assignment.restore(): save(update_fields=[is_deleted, ...])
AsgRestore(p, a) ==
    /\ assignments[a].exists
    /\ assignments[a].is_deleted
    /\ save_demote(p, Instance("restore", a,
           [assignments[a] EXCEPT !.is_deleted = FALSE], "deletion"))

AsgInit ==
    /\ creds = InitialCredentials
    /\ EmptyAuthStore
    /\ employee_table = {}
    /\ NoRequests
    /\ NoRecords
    /\ NoAssignments
    /\ NoLogins
    /\ hdms_role_asked = ""

\* One save call at a time, made by caller p1.
AsgNext ==
    \/ \E a \in AsgIds, b \in Branches, f \in BOOLEAN : AsgCreate("p1", a, b, f)
    \/ \E a \in AsgIds, b \in Branches, f \in BOOLEAN : AsgSave("p1", a, b, f)
    \/ \E a \in AsgIds : AsgSoftDelete("p1", a)
    \/ \E a \in AsgIds : AsgRestore("p1", a)
    \/ save_write("p1")

SpecAsg == AsgInit /\ [][AsgNext]_vars

\* The assignments Employee.primary_assignment can find
Primaries == {a \in objects(assignments) : assignments[a].is_primary}

C13_ExactlyOnePrimary ==
    (asg_pc["p1"] = "idle" /\ asg_result["p1"].op # "") => Cardinality(Primaries) = 1

\* A completed save of a non-primary assignment that leaves the employee with
\* assignments and none of them primary.
C13_Witness ==
    /\ asg_pc["p1"] = "idle"
    /\ asg_result["p1"].op \in {"create", "save"}
    /\ ~asg_result["p1"].instance.is_primary
    /\ objects(assignments) # {}
    /\ Primaries = {}

\* The latest save was of a primary assignment with its branch and its
\* primary flag as loaded.
UnchangedPrimarySave(r) ==
    /\ r.op = "save"
    /\ r.instance.loaded.is_primary
    /\ r.instance.is_primary
    /\ r.instance.branch = r.instance.loaded.branch

\* C16: saving a primary assignment again with nothing changed completes
\* normally, leaves Employee.employee_code as it was and sends no code-change
\* notification.
C16_UnchangedSaveIsQuiet ==
    LET r == asg_result["p1"]
    IN  UnchangedPrimarySave(r) =>
            /\ r.error = ""
            /\ r.notification = ""
            /\ employee_code = r.old_code
            /\ employee_code = compose_code(r.instance)

\* An unchanged primary assignment saved again, its code already stored.
C16_Witness ==
    /\ asg_pc["p1"] = "idle"
    /\ UnchangedPrimarySave(asg_result["p1"])
    /\ asg_result["p1"].old_code = asg_result["p1"].new_code
    /\ assignments[asg_result["p1"].id].is_primary

\* The latest save was of a primary assignment whose composed code differs
\* from the stored one.
CodeChangingSave(r) ==
    /\ r.op # ""
    /\ r.instance.is_primary
    /\ r.new_code # r.old_code

\* C17: when the composed code of a saved primary assignment differs from
\* the stored code, the save completes, Employee.employee_code is the new
\* code, and exactly one notification carrying the employee, the old and the
\* new code has been sent.
C17_CodeChangeStoredAndNotified ==
    LET r == asg_result["p1"]
    IN  CodeChangingSave(r) =>
            /\ r.error = ""
            /\ employee_code = r.new_code
            /\ r.notification = "sent"
            /\ notifications # <<>>
            /\ notifications[Len(notifications)] = <<"e1", r.old_code, r.new_code>>

\* A move from branch C01 to branch C02: the new code is stored, the save
\* has raised TypeError and no notification exists.
C17_Witness ==
    LET r == asg_result["p1"]
    IN  /\ CodeChangingSave(r)
        /\ r.op = "save"
        /\ r.instance.loaded.branch = "C01"
        /\ r.instance.branch = "C02"
        /\ r.old_code = compose_code(r.instance.loaded)
        /\ employee_code = r.new_code
        /\ r.error = "TypeError"
        /\ notifications = <<>>

\* C18: a failure of the code-change notification never makes
\* EmployeeAssignment.save fail: the save returns normally, the assignment
\* row and the new employee_code stored.
C18_NotificationFailureIsContained ==
    LET r == asg_result["p1"]
    IN  r.notification = "TypeError" =>
            /\ r.error = ""
            /\ employee_code = r.new_code
            /\ assignments[r.id].exists

\* The notification call of a newly created primary assignment has raised,
\* and the exception has left save().
C18_Witness ==
    LET r == asg_result["p1"]
    IN  /\ r.op = "create"
        /\ r.notification = "TypeError"
        /\ r.error = "TypeError"
        /\ assignments[r.id].exists



-----------------------------------------------------------------------------
(* Concurrent EmployeeAssignment.save calls: two callers, each saving a
   primary assignment of the same employee, their demotion updates and row
   writes interleaved by the database in any order.  save() takes no lock
   and opens no transaction. *)

\* The assignments another caller's save is working on
InFlight(p) == {asg_inst[q].id : q \in AsgProcs \ {p}}

ConcNext ==
    \/ \E p \in AsgProcs : \E a \in AsgIds \ InFlight(p), b \in Branches :
           AsgCreate(p, a, b, TRUE)
    \/ \E p \in AsgProcs : \E a \in AsgIds \ InFlight(p), b \in Branches :
           AsgSave(p, a, b, TRUE)
    \/ \E p \in AsgProcs : save_write(p)

SpecAsgConc == AsgInit /\ [][ConcNext]_vars

\* C14: two concurrent primary saves of two different assignments of the
\* same employee are serialized: once both have finished, exactly one of the
\* two assignments is primary.
C14_ConcurrentPrimarySavesSerialized ==
    LET r1 == asg_result["p1"]
        r2 == asg_result["p2"]
    IN  (/\ \A p \in AsgProcs : asg_pc[p] = "idle"
         /\ r1.op # ""
         /\ r2.op # ""
         /\ r1.id # r2.id)
        => Cardinality({a \in {r1.id, r2.id} : assignments[a].is_primary}) = 1

\* Both saves have finished without an error and both assignments are
\* primary.
C14_Witness ==
    /\ \A p \in AsgProcs : asg_pc[p] = "idle" /\ asg_result[p].error = ""
    /\ asg_result["p1"].op = "save"
    /\ asg_result["p2"].op = "save"
    /\ asg_result["p1"].id # asg_result["p2"].id
    /\ Cardinality(Primaries) = 2



-----------------------------------------------------------------------------
(* Concurrent /login requests with a wrong password for one credential
   (authentication/api.py 141-168).  Each request loads its own
   UserCredentials instance; record_failed_login increments the counter of
   that instance and save() writes the instance back. *)

WrongPasswords == Passwords \ {"Secret1"}

\* credentials = UserCredentials.objects.get(**cred_filter, is_deleted=False)
LoginRead(q) ==
    /\ login_pc[q] = "idle"
    /\ creds["e1"].failed_login_attempts < MaxAttempts
    /\ login_read' = [login_read EXCEPT ![q] = creds["e1"]]
    /\ login_pc' = [login_pc EXCEPT ![q] = "read"]
    /\ UNCHANGED <<login_answer, refVars, now, ticks, credVars, authVars, last_call>>
    /\ UNCHANGED <<allocVars, seqVars, asgVars, askVars>>

\* The rest of the request, on the loaded instance: 423 if it is locked,
\* otherwise the wrong password is recorded and answered with 401.
LoginRecord(q, pw) ==
    LET credentials == login_read[q]
    IN  /\ login_pc[q] = "read"
        /\ ~check_password(credentials, pw)
        /\ IF is_locked(credentials, now)
           THEN /\ login_answer' = [login_answer EXCEPT ![q] = 423]
                /\ UNCHANGED credVars
           ELSE /\ creds' = [creds EXCEPT !["e1"] = record_failed_login(credentials, now)]
                /\ StreakAfterFailure("e1")
                /\ login_answer' = [login_answer EXCEPT ![q] = 401]
        /\ login_pc' = [login_pc EXCEPT ![q] = "idle"]
        /\ login_read' = [login_read EXCEPT ![q] = NewCredentials]
        /\ UNCHANGED <<refVars, now, ticks, authVars, last_call>>
        /\ UNCHANGED <<allocVars, seqVars, asgVars, askVars>>

RaceTick ==
    /\ \E d \in LockTickSizes : Tick(d)
    /\ UNCHANGED <<credVars, authVars, allocVars, restVars, askVars, last_call>>

RaceInit ==
    /\ creds = CredentialsOnlyFor("e1")
    /\ EmptyStore

RaceNext ==
    \/ \E q \in LoginRequests : LoginRead(q)
    \/ \E q \in LoginRequests, pw \in WrongPasswords : LoginRecord(q, pw)
    \/ RaceTick

SpecRace == RaceInit /\ [][RaceNext]_vars

\* C15: concurrent wrong-password logins for one credential lose no failure:
\* once the requests have completed, failed_login_attempts has grown by one
\* for every recorded failure, and the credential has been locked if that
\* number reached 5.
C15_NoFailureLost ==
    (\A q \in LoginRequests : login_pc[q] = "idle") =>
        /\ creds["e1"].failed_login_attempts = fail_streak["e1"]
        /\ fail_streak["e1"] >= LOCK_THRESHOLD => creds["e1"].locked_until # None

\* Two requests answered 401, the counter at 1.
C15_Witness ==
    /\ \A q \in LoginRequests : login_pc[q] = "idle" /\ login_answer[q] = 401
    /\ fail_streak["e1"] = 2
    /\ creds["e1"].failed_login_attempts = 1



-----------------------------------------------------------------------------
(* The service gate of login_hdms and login_sis (authentication/api.py
   403-424 and 510-516), over the ServiceAccess and HdmsRole rows an
   administrator may have left for the employee. *)

HdmsRoles == {"requestor", "moderator"}

AccessRows(svc) ==
    [exists : {TRUE}, is_active : BOOLEAN, is_deleted : BOOLEAN,
     role_type : IF svc = "hdms" THEN HdmsRoles \cup {"none"} ELSE {"none"}]
        \cup {NoAccessRow}

AccessInit ==
    /\ creds = CredentialsOnlyFor("e1")
    /\ now = 0
    /\ ticks = 0
    /\ users = InitialUsers
    /\ \E hdms \in AccessRows("hdms"), sis \in AccessRows("sis") :
           service_access = [InitialAccess EXCEPT !["e1"] =
                                 [svc \in Services |-> IF svc = "hdms" THEN hdms ELSE sis]]
    /\ issued = {}
    /\ next_jti = 1
    /\ refresh_tokens = {}
    /\ blacklist = {}
    /\ logged_out = {}
    /\ revoked_at_logout = {}
    /\ fail_streak = [u \in Identities |-> 0]
    /\ fifth_at = [u \in Identities |-> None]
    /\ last_call = NoCall
    /\ employee_table = {}
    /\ NoRequests
    /\ RestIdle

\* The bodies a client sends to /login-hdms: with or without a role
HdmsBodies ==
    [employee_code : {LoginCode["e1"]}, password : Passwords]
        \cup [employee_code : {LoginCode["e1"]}, password : Passwords, role : HdmsRoles]

AccessNext ==
    \/ \E body \in HdmsBodies : post_login_hdms(body)
    \/ \E code \in RequestCodes, pw \in Passwords : login_sis(code, pw)

SpecAccess == AccessInit /\ [][AccessNext]_vars

ServiceOf(op) == IF op = "login_hdms" THEN "hdms" ELSE "sis"

\* The call got past the password check: the identity was found, its
\* credentials were present and unlocked, and the password matched.
PasswordVerified(call) ==
    /\ call.who \in Identities
    /\ ~call.prev.is_deleted
    /\ ~is_locked(call.prev, call.at)
    /\ check_password(call.prev, call.password)

\* C19: login_hdms and login_sis issue tokens and record a refresh token
\* only if, the password verified, an active and non-deleted ServiceAccess
\* row of the service exists for the identity; with a correct password and
\* no such row the answer is the 403 no-access rejection and nothing is
\* issued or recorded.
C19_TokensOnlyWithAccess ==
    [][(last_call'.op \in {"login_hdms", "login_sis"} /\ PasswordVerified(last_call'))
          => \/ HasAccess(last_call'.who, ServiceOf(last_call'.op))
             \/ /\ last_call'.status = 403
                /\ issued' = issued
                /\ refresh_tokens' = refresh_tokens]_vars

\* login_sis, the password verified and no sis access: answered 500.
C19_Witness ==
    /\ last_call.op = "login_sis"
    /\ PasswordVerified(last_call)
    /\ ~HasAccess(last_call.who, "sis")
    /\ last_call.status = 500
    /\ issued = {}

\* The role assigned to the employee the call was for
AssignedRole(call) == service_access[call.who]["hdms"].role_type

\* The identity has HDMS access with a role other than the one the request
\* names.
RoleDiffers(call) ==
    /\ call.op = "login_hdms"
    /\ PasswordVerified(call)
    /\ HasAccess(call.who, "hdms")
    /\ AssignedRole(call) \in HdmsRoles
    /\ hdms_role_asked \in HdmsRoles \ {AssignedRole(call)}

\* C20: a role-scoped login by an identity that has service access but
\* whose assigned role differs from the requested one is rejected with
\* role_mismatch, the answer reporting the assigned role; the outcome
\* differs from the one for an identity without access.
C20_RoleMismatchRejected ==
    RoleDiffers(last_call) =>
        /\ last_call.status = 403
        /\ last_call.error = "role_mismatch"
        /\ Get(last_call, "assigned_role", "") = AssignedRole(last_call)

\* A request naming another role than the assigned one, answered 200 with
\* tokens for the assigned role.
C20_Witness ==
    /\ RoleDiffers(last_call)
    /\ last_call.status = 200
    /\ \E token \in issued : Get(token.payload, "role", "") = AssignedRole(last_call)

-----------------------------------------------------------------------------
(* What a caller of /login can tell from the answer *)

\* The three failures the answer is to keep apart from nothing: a code that
\* matches no active identity, an employee without credentials, and an
\* unlocked employee given a wrong password.
EnumerationCase(call) ==
    /\ call.op = "login"
    /\ \/ call.who = NoUser
       \/ call.who \in Employees /\ call.prev.is_deleted
       \/ /\ call.who \in Employees
          /\ ~call.prev.is_deleted
          /\ ~is_locked(call.prev, call.at)
          /\ ~check_password(call.prev, call.password)

Response(call) == <<call.status, call.error, call.detail>>

\* C21: login answers with the same status, error and detail for a code that
\* matches no active identity, for an identity without credentials and for an
\* unlocked identity given a wrong password: any two such answers are equal.
C21_FailuresIndistinguishable ==
    [][(EnumerationCase(last_call) /\ EnumerationCase(last_call'))
          => Response(last_call') = Response(last_call)]_vars

\* A wrong password for an existing employee, answered with its own detail.
C21_Witness ==
    /\ EnumerationCase(last_call)
    /\ last_call.who \in Employees
    /\ last_call.status = 401
    /\ last_call.detail = "Incorrect password"

-----------------------------------------------------------------------------
(* grant_hdms_access (permissions/api.py 176-281).  Requests run under
   autocommit: what a request has written stays written when a later
   statement of the same request raises. *)

\* The passwords of the requests, as their characters
GrantPasswordText ==
    [pw \in {"Secret1", "Newpass2", "Ab1", "secret1", "SECRET1", "Secret-1"} |->
        CASE pw = "Secret1"  -> <<"S", "e", "c", "r", "e", "t", "1">>
          [] pw = "Newpass2" -> <<"N", "e", "w", "p", "a", "s", "s", "2">>
          [] pw = "Ab1"      -> <<"A", "b", "1">>
          [] pw = "secret1"  -> <<"s", "e", "c", "r", "e", "t", "1">>
          [] pw = "SECRET1"  -> <<"S", "E", "C", "R", "E", "T", "1">>
          [] pw = "Secret-1" -> <<"S", "e", "c", "r", "e", "t", "-", "1">>]

GrantPasswords == DOMAIN GrantPasswordText

UpperCase == {"A", "B", "C", "D", "E", "F", "G", "H", "I", "J", "K", "L", "M",
              "N", "O", "P", "Q", "R", "S", "T", "U", "V", "W", "X", "Y", "Z"}
LowerCase == {"a", "b", "c", "d", "e", "f", "g", "h", "i", "j", "k", "l", "m",
              "n", "o", "p", "q", "r", "s", "t", "u", "v", "w", "x", "y", "z"}
Digits == {"0", "1", "2", "3", "4", "5", "6", "7", "8", "9"}

\* The password checks of lines 189-197, in their order: the error of the
\* first one that fails, or "" if none does.
PasswordError(pw) ==
    LET text == GrantPasswordText[pw]
        chars == {text[i] : i \in 1..Len(text)}
    IN  IF Len(text) < 6 THEN "Password must be at least 6 characters"
        ELSE IF chars \cap UpperCase = {}
        THEN "Password must contain at least one uppercase letter"
        ELSE IF chars \cap LowerCase = {}
        THEN "Password must contain at least one lowercase letter"
        ELSE IF ~(chars \subseteq UpperCase \cup LowerCase \cup Digits)
        THEN "Password must be alphanumeric only"
        ELSE ""

\* valid_roles = ['requestor', 'moderator', 'assignee']
valid_roles == {"requestor", "moderator", "assignee"}

GrantRoles == {"requestor", "moderator", "admin"}

\* Employee.employee_id of the employees, and an id no employee has
EmployeeId == [e \in Employees |-> IF e = "e1" THEN "IAK-0001" ELSE "IAK-0002"]

GrantIds == {"IAK-0001", "IAK-0404"}

\* Employee.objects.get(employee_id=payload.employee_id, is_deleted=False)
EmployeeById(id) ==
    LET found == {e \in Employees : EmployeeId[e] = id /\ ~users[e].is_deleted}
    IN  IF found = {} THEN NoUser ELSE CHOOSE e \in found : TRUE

\* A UserCredentials row of the identity is stored, soft-deleted or not.
CredentialsStored(c) == c # NoCredentials

\* The ServiceAccess row as the existing-access branch leaves it: the role
\* replaced if the row has an HdmsRole, the row reactivated.
AccessUpdated(row, role) ==
    [row EXCEPT !.role_type = IF row.role_type # "none" THEN role ELSE @,
                !.is_active = TRUE]

\* ServiceAccess.objects.create(...) and HdmsRole.objects.create(...)
AccessCreated(role) ==
    [exists |-> TRUE, is_active |-> TRUE, is_deleted |-> FALSE, role_type |-> role]

GrantAnswer(who, status, error, role) ==
    last_call' = [role |-> role] @@ Call("grant_hdms_access", who, status, error, "")

grant_hdms_access(id, pw, role, change_password) ==
    LET employee == EmployeeById(id)
        row == IF employee = NoUser THEN NoAccessRow
               ELSE service_access[employee]["hdms"]
        existing_access == row.exists /\ ~row.is_deleted
        credentials == IF employee = NoUser THEN NoCredentials ELSE creds[employee]
        granted == IF existing_access THEN AccessUpdated(row, role)
                   ELSE AccessCreated(role)
    IN  /\ IF PasswordError(pw) # ""
           THEN /\ GrantAnswer(NoUser, 400, PasswordError(pw), role)
                /\ UNCHANGED <<creds, service_access>>
           ELSE IF role \notin valid_roles
           THEN /\ GrantAnswer(NoUser, 400, "Role must be one of", role)
                /\ UNCHANGED <<creds, service_access>>
           ELSE IF employee = NoUser
           THEN /\ GrantAnswer(NoUser, 400, "Employee not found", role)
                /\ UNCHANGED <<creds, service_access>>
           ELSE IF ~existing_access /\ row.exists
           THEN \* unique_together employee/service: the soft-deleted row
                /\ GrantAnswer(employee, 500, "IntegrityError", role)
                /\ UNCHANGED <<creds, service_access>>
           ELSE /\ service_access' = [service_access EXCEPT ![employee]["hdms"] = granted]
                /\ IF ~credentials.is_deleted
                   THEN /\ creds' = IF change_password
                                    THEN [creds EXCEPT ![employee] = set_password(@, pw)]
                                    ELSE creds
                        /\ GrantAnswer(employee, IF existing_access THEN 200 ELSE 201,
                                       "", role)
                   ELSE IF CredentialsStored(credentials)
                   THEN \* OneToOneField employee: the soft-deleted row
                        /\ GrantAnswer(employee, 500, "IntegrityError", role)
                        /\ UNCHANGED creds
                   ELSE /\ creds' = [creds EXCEPT ![employee] =
                                        set_password(NewCredentials, pw)]
                        /\ GrantAnswer(employee, IF existing_access THEN 200 ELSE 201,
                                       "", role)
        /\ UNCHANGED <<fail_streak, fifth_at, now, ticks, users, tokenVars>>
        /\ UNCHANGED <<allocVars, restVars, askVars>>

\* The UserCredentials rows the employee may have: a usable one, none, a
\* soft-deleted one.
GrantCredentials ==
    {InitialCredentials["e1"], NoCredentials,
     [InitialCredentials["e1"] EXCEPT !.is_deleted = TRUE]}

GrantInit ==
    /\ \E c \in GrantCredentials : creds = [CredentialsOnlyFor("e1") EXCEPT !["e1"] = c]
    /\ now = 0
    /\ ticks = 0
    /\ users = InitialUsers
    /\ \E hdms \in AccessRows("hdms") :
           service_access = [InitialAccess EXCEPT !["e1"]["hdms"] = hdms]
    /\ issued = {}
    /\ next_jti = 1
    /\ refresh_tokens = {}
    /\ blacklist = {}
    /\ logged_out = {}
    /\ revoked_at_logout = {}
    /\ fail_streak = [u \in Identities |-> 0]
    /\ fifth_at = [u \in Identities |-> None]
    /\ last_call = NoCall
    /\ employee_table = {}
    /\ NoRequests
    /\ RestIdle

GrantNext ==
    \/ \E id \in GrantIds, pw \in GrantPasswords, role \in GrantRoles, f \in BOOLEAN :
           grant_hdms_access(id, pw, role, f)
    \/ \E e \in {"e1"}, flag \in BOOLEAN : set_employees_active(e, flag)

SpecGrant == GrantInit /\ [][GrantNext]_vars

\* C22: after a grant_hdms_access call answered 201 or 200 the employee has
\* an active HDMS ServiceAccess whose role is the requested one and a
\* UserCredentials row; 201 answers an employee without HDMS ServiceAccess,
\* 200 one with it.
C22_GrantEstablishesAccess ==
    (last_call.op = "grant_hdms_access" /\ last_call.status \in {200, 201}) =>
        /\ HasAccess(last_call.who, "hdms")
        /\ service_access[last_call.who]["hdms"].role_type = last_call.role
        /\ ~creds[last_call.who].is_deleted

\* A grant answered 200 for an employee whose ServiceAccess has no HdmsRole:
\* still none afterwards.
C22_Witness ==
    /\ last_call.op = "grant_hdms_access"
    /\ last_call.status = 200
    /\ HasAccess(last_call.who, "hdms")
    /\ service_access[last_call.who]["hdms"].role_type = "none"

-----------------------------------------------------------------------------
(* The allocator past its padding width *)

\* The highest number among the ids of a table, 0 for an empty table
HighestNumber(rows) ==
    IF rows = {} THEN 0
    ELSE CHOOSE n \in {int(id) : id \in all_objects(rows)} :
             \A id \in all_objects(rows) : int(id) <= n

\* C23: every sequential creation succeeds, also once the number outgrows
\* the padding width, and gives the record the number after the numerically
\* highest one issued so far.
C23_AllocatorPastPadding ==
    record_call.op = "create" =>
        /\ record_call.error = ""
        /\ LET log == issue_log[record_call.model]
           IN  int(log[Len(log)]) =
                   HighestNumber({r \in records[record_call.model] :
                                      r.id # log[Len(log)]}) + 1

\* IAK-9999 and IAK-10000 issued, the next creation refused.
C23_Witness ==
    /\ record_call = [op |-> "create", model |-> "Employee", error |-> "IntegrityError"]
    /\ Len(issue_log["Employee"]) >= 2
    /\ int(issue_log["Employee"][Len(issue_log["Employee"])]) = 10000
    /\ HighestNumber(records["Employee"]) = 10000

-----------------------------------------------------------------------------
(* The unit prefix of the composite code (employees/models.py 551-561) over
   assignments with or without a branch and an institution, in departments
   that are global or local, with or without an organization. *)

ScopedIds == {"a1", "a2"}

ScopedBranches == {"", "C01", "C02", "C03"}

ScopedInstitutions == {"", "AIT01", "AMC01"}

\* Department rows: is_global is "self.institution is None".
Departments ==
    {[is_global |-> inst = "", dept_code |-> code, organization |-> org] :
        inst \in {"", "AIT01"}, code \in {"HR", "ACAD", "FIN"}, org \in {"", "AKF"}}

\* EmployeeAssignment(branch=..., institution=..., department=...,
\* is_primary=True).save() of a new assignment
AsgCreateScoped(p, a, branch, institution, department) ==
    /\ ~assignments[a].exists
    /\ save_demote(p,
           [institution |-> institution, department |-> department] @@
           Instance("create", a,
               [branch |-> branch, is_primary |-> TRUE, is_deleted |-> FALSE], "all"))

CodeNext ==
    \/ \E a \in ScopedIds, b \in ScopedBranches, i \in ScopedInstitutions, d \in Departments :
           AsgCreateScoped("p1", a, b, i, d)
    \/ save_write("p1")

SpecCode == AsgInit /\ [][CodeNext]_vars

\* The latest save was of a primary assignment with its unit fields given.
ScopedSave(r) ==
    /\ r.op = "create"
    /\ r.instance.is_primary
    /\ "department" \in DOMAIN r.instance

\* C24 as stated: the prefix is the branch code if there is a branch, else
\* the institution code if there is an institution, else the organization's
\* code, and the department code only for a global department when none of
\* these applies; with a branch the code starts with the branch code.
C24_Original ==
    LET r == asg_result["p1"]
        i == r.instance
    IN  ScopedSave(r) =>
            /\ r.new_code[1] = Prefix_BranchFirst(i.branch, i.institution, i.department)
            /\ i.branch # "" => r.new_code[1] = i.branch
            /\ r.new_code[1] = i.department.dept_code =>
                   i.department.is_global \/ i.department.dept_code
                       \in {i.branch, i.institution, i.department.organization}

\* C24, amended: a global department decides first, its dept_code being the
\* prefix whatever branch or institution the assignment has; for a local
\* department the prefix is the branch code, else the institution code, else
\* the code of the department's organization, else the dept_code.
C24_PrefixPriority ==
    LET r == asg_result["p1"]
        i == r.instance
        d == i.department
    IN  ScopedSave(r) =>
            /\ d.is_global => r.new_code[1] = d.dept_code
            /\ (~d.is_global /\ i.branch # "") => r.new_code[1] = i.branch
            /\ (~d.is_global /\ i.branch = "" /\ i.institution # "")
                   => r.new_code[1] = i.institution
            /\ (~d.is_global /\ i.branch = "" /\ i.institution = ""
                    /\ d.organization # "") => r.new_code[1] = d.organization
            /\ (~d.is_global /\ i.branch = "" /\ i.institution = ""
                    /\ d.organization = "") => r.new_code[1] = d.dept_code
            /\ employee_code = r.new_code

\* A primary assignment with a branch in a global department: the stored code
\* starts with the department code.
C24_Witness ==
    LET r == asg_result["p1"]
    IN  /\ ScopedSave(r)
        /\ r.instance.branch = "C01"
        /\ r.instance.department.is_global
        /\ employee_code[1] = r.instance.department.dept_code
        /\ employee_code[1] # "C01"

\* C25: saving a primary assignment without branch and institution, in a
\* department that is not global and has no organization, fails: no
\* assignment row is written, employee_code stays as it was, and no code with
\* a substitute prefix is stored.
C25_UnresolvablePrefixFails ==
    LET r == asg_result["p1"]
        i == r.instance
    IN  (/\ ScopedSave(r)
         /\ i.branch = ""
         /\ i.institution = ""
         /\ ~i.department.is_global
         /\ i.department.organization = "")
        => /\ r.error # ""
           /\ ~assignments[r.id].exists
           /\ employee_code = r.old_code

\* Such an assignment saved: its row written and a code with the department
\* code as prefix stored.
C25_Witness ==
    LET r == asg_result["p1"]
        i == r.instance
    IN  /\ ScopedSave(r)
        /\ i.branch = ""
        /\ i.institution = ""
        /\ ~i.department.is_global
        /\ i.department.organization = ""
        /\ assignments[r.id].exists
        /\ assignments[r.id].is_primary
        /\ employee_code[1] = i.department.dept_code


-----------------------------------------------------------------------------
(* Deactivation and soft deletion of an identity that holds tokens *)

\* DELETE /employees/{employee_id} (employees/api.py)
delete_employee(e) ==
    /\ IF users[e].is_deleted
       THEN /\ Answer("delete_employee", e, 404, "not found", "")
            /\ UNCHANGED users
       ELSE /\ users' = [users EXCEPT ![e].is_deleted = TRUE]
            /\ Answer("delete_employee", e, 200, "", "")
    /\ UNCHANGED <<now, ticks, allocVars, restVars, askVars, credVars, service_access,
                   tokenVars>>

\* EmployeeAdmin.restore_items: SoftDeleteModel.restore on the deleted rows
restore_items(e) ==
    /\ users[e].is_deleted
    /\ users' = [users EXCEPT ![e].is_deleted = FALSE]
    /\ UNCHANGED <<now, ticks, allocVars, restVars, askVars, credVars, service_access,
                   tokenVars, last_call>>

DeactInit == SessionInit

DeactNext ==
    \/ \E e \in SessionEmployees :
           post_login_hdms([employee_code |-> LoginCode[e], password |-> "Secret1"])
    \/ \E token \in issued : refresh_token(token)
    \/ \E bearer \in issued : logout(bearer, bearer)
    \/ \E bearer \in issued : get_current_user(bearer)
    \/ \E e \in SessionEmployees, flag \in BOOLEAN : set_employees_active(e, flag)
    \/ \E e \in SessionEmployees : delete_employee(e)
    \/ \E e \in SessionEmployees : restore_items(e)

SpecDeact == DeactInit /\ [][DeactNext]_vars

\* The identity of the claim: deactivated or soft-deleted.
Deactivated(u) == ~users[u].is_active \/ users[u].is_deleted

\* C26: while an identity is deactivated or soft-deleted, every token issued
\* to it earlier is refused: a whoami or logout request with it as bearer is
\* answered 401 and changes neither the blacklist nor the sessions, and a
\* refresh_token request with it is answered 401 and issues no token.
C26_DeactivatedTokensRejected ==
    [][\A token \in issued :
          Deactivated(token.payload.user_id) =>
              /\ get_current_user(token) => last_call'.status = 401
              /\ logout(token, token) =>
                     /\ last_call'.status = 401
                     /\ blacklist' = blacklist
                     /\ refresh_tokens' = refresh_tokens
              /\ refresh_token(token) =>
                     /\ last_call'.status = 401
                     /\ issued' = issued]_vars

\* A refresh token that still verifies and whose row is neither revoked nor
\* expired has just been refused because its employee is soft-deleted.
C26_Witness ==
    /\ last_call.op = "refresh"
    /\ last_call.status = 401
    /\ last_call.detail = "Account is inactive or deleted"
    /\ users["e1"].is_deleted
    /\ users["e1"].is_active
    /\ \E r \in refresh_tokens :
           /\ r.employee = "e1"
           /\ is_valid(r, now)
           /\ verify_refresh_token(r.token, now).ok


-----------------------------------------------------------------------------
(* Every way a stored password_hash is replaced *)

\* UserCredentialsAdmin with form = UserCredentialsForm: the change form of
\* one UserCredentials row.  password is the extra form field, empty when
\* left blank; failed_login_attempts and locked_until are editable model
\* fields, posted as shown or as the administrator changed them;
\* password_hash is read-only in the admin and written only by save.
UserCredentialsForm_save(u, password, attempts, locked) ==
    /\ CredentialsStored(creds[u])
    /\ creds' = [creds EXCEPT ![u] =
                    [@ EXCEPT !.password_hash = IF password # ""
                                                THEN make_password(password) ELSE @,
                              !.failed_login_attempts = attempts,
                              !.locked_until = locked]]
    /\ last_call' = [password_given |-> password # ""] @@
                        Call("UserCredentialsForm.save", u, 0, "", "")
    /\ UNCHANGED <<fail_streak, fifth_at, now, ticks, authVars, allocVars, restVars,
                   askVars>>

\* The values the change form may post for an editable field: the one it
\* was rendered with, or the cleared one.
FormValues(shown, cleared) == {shown, cleared}

\* The clock moves by one lockout window.
PwdTick ==
    /\ Tick(LOCK_MINUTES)
    /\ UNCHANGED <<credVars, authVars, allocVars, restVars, askVars, last_call>>

PwdNext ==
    \/ fail_streak["e1"] < MaxAttempts /\ CallRecordFailedLogin("e1")
    \/ \E pw \in {"Secret1", "Newpass2"}, f \in BOOLEAN :
           grant_hdms_access("IAK-0001", pw, "requestor", f)
    \/ \E password \in {"", "Secret1", "Newpass2"} :
       \E attempts \in FormValues(creds["e1"].failed_login_attempts, 0) :
       \E locked \in FormValues(creds["e1"].locked_until, None) :
           UserCredentialsForm_save("e1", password, attempts, locked)
    \/ PwdTick

SpecPwd == StoreInit /\ [][PwdNext]_vars

\* C27: every step that replaces the password_hash of a stored credential
\* leaves failed_login_attempts at 0 and locked_until cleared.
C27_PasswordChangeUnlocks ==
    [][\A u \in Identities :
          creds'[u].password_hash # creds[u].password_hash =>
              /\ creds'[u].failed_login_attempts = 0
              /\ creds'[u].locked_until = None]_vars

\* The same for the steps of grant_hdms_access alone, where it holds.
C27_GrantPathUnlocks ==
    [][(last_call'.op = "grant_hdms_access" /\
        creds'["e1"].password_hash # creds["e1"].password_hash) =>
              /\ creds'["e1"].failed_login_attempts = 0
              /\ creds'["e1"].locked_until = None]_vars

\* The administrator has set a new password on a locked credential through
\* the change form, and the credential is still locked.
C27_Witness ==
    /\ last_call.op = "UserCredentialsForm.save"
    /\ last_call.password_given
    /\ last_call.prev.password_hash # creds["e1"].password_hash
    /\ is_locked(last_call.prev, last_call.at)
    /\ is_locked(creds["e1"], now)
    /\ creds["e1"].failed_login_attempts >= LOCK_THRESHOLD


-----------------------------------------------------------------------------
(* After the lockout window has run out *)

\* A login request with a wrong password for a stored credential whose
\* lockout window has run out.
WrongPasswordAfterWindow(call) ==
    /\ call.op \in LoginOps
    /\ call.who \in Identities
    /\ ~call.prev.is_deleted
    /\ call.prev.locked_until # None
    /\ ~is_locked(call.prev, call.at)
    /\ ~check_password(call.prev, call.password)

\* The credentials lookup of the request goes through: login_hdms filters on
\* employee, login and login_sis on the key FilterKey chooses.
LookupSucceeds(call) ==
    call.op = "login_hdms" \/ KeyAccepts(FilterKey(call.who), call.who)

\* C28: the end of a lockout window resets nothing.  A credential that has a
\* locked_until still has failed_login_attempts at or above 5, and one login
\* request with a wrong password after the window sets locked_until to the
\* time of that request plus 30 minutes.
C28_ExpiryResetsNothing ==
    /\ \A u \in Identities :
           creds[u].locked_until # None =>
               creds[u].failed_login_attempts >= LOCK_THRESHOLD
    /\ WrongPasswordAfterWindow(last_call) =>
           /\ last_call.prev.failed_login_attempts >= LOCK_THRESHOLD
           /\ creds[last_call.who].failed_login_attempts
                  = last_call.prev.failed_login_attempts + 1
           /\ creds[last_call.who].locked_until = last_call.at + LOCK_MINUTES

\* The same where the credentials lookup of the request goes through.
C28_RelockWhereLookupSucceeds ==
    /\ \A u \in Identities :
           creds[u].locked_until # None =>
               creds[u].failed_login_attempts >= LOCK_THRESHOLD
    /\ (WrongPasswordAfterWindow(last_call) /\ LookupSucceeds(last_call)) =>
           /\ last_call.prev.failed_login_attempts >= LOCK_THRESHOLD
           /\ last_call.status = 401
           /\ creds[last_call.who].failed_login_attempts
                  = last_call.prev.failed_login_attempts + 1
           /\ creds[last_call.who].locked_until = last_call.at + LOCK_MINUTES

\* One wrong password through login after the window: locked again.
C28_Witness ==
    /\ last_call.op = "login"
    /\ last_call.who = "e1"
    /\ WrongPasswordAfterWindow(last_call)
    /\ last_call.at >= last_call.prev.locked_until
    /\ last_call.status = 401
    /\ creds["e1"].locked_until = last_call.at + LOCK_MINUTES
    /\ is_locked(creds["e1"], now)


-----------------------------------------------------------------------------
(* refresh_token beside logout (authentication/api.py 212-302).  The
   request reads its RefreshToken row, then tests the loaded instance, looks
   the user up and signs the new token; nothing holds the row in between. *)

\* verify_refresh_token and RefreshToken.objects.get(token=..., **cred_filter)
RefreshRead(f, token) ==
    LET v == verify_refresh_token(token, now)
        rows == {r \in refresh_tokens : r.token = token /\ r.employee = v.user_id}
    IN  /\ refresh_pc[f] = "idle"
        /\ IF refresh_outcome(token) \in {"invalid", "FieldError", "not_found"}
           THEN /\ Answer("refresh", NoUser, 401, "Invalid refresh token",
                          refresh_outcome(token))
                /\ UNCHANGED refVars
           ELSE /\ refresh_read' = [refresh_read EXCEPT ![f] = CHOOSE r \in rows : TRUE]
                /\ refresh_pc' = [refresh_pc EXCEPT ![f] = "read"]
                /\ UNCHANGED last_call
        /\ UNCHANGED <<login_pc, login_read, login_answer, now, ticks, credVars, authVars>>
        /\ UNCHANGED <<allocVars, seqVars, asgVars, askVars>>

\* refresh_token_obj.is_valid(), the user lookup, generate_access_token
RefreshIssue(f) ==
    LET row == refresh_read[f]
        user == row.employee
    IN  /\ refresh_pc[f] = "read"
        /\ IF ~is_valid(row, now)
           THEN /\ Answer("refresh", user, 401, "Invalid refresh token",
                          "Token has been revoked or expired")
                /\ UNCHANGED <<issued, next_jti>>
           ELSE IF ~(user \in Employees /\ Live(user))
           THEN /\ Answer("refresh", user, 401, "User not found",
                          "Account is inactive or deleted")
                /\ UNCHANGED <<issued, next_jti>>
           ELSE /\ next_jti <= MaxJti
                /\ issued' = issued \cup
                       {generate_access_token(user, NoClaims, now, next_jti)}
                /\ next_jti' = next_jti + 1
                /\ Answer("refresh", user, 200, "", "")
        /\ refresh_pc' = [refresh_pc EXCEPT ![f] = "idle"]
        /\ refresh_read' = [refresh_read EXCEPT ![f] = NoRow]
        /\ UNCHANGED <<login_pc, login_read, login_answer, now, ticks, credVars, users,
                       service_access, refresh_tokens, blacklist, logged_out,
                       revoked_at_logout>>
        /\ UNCHANGED <<allocVars, seqVars, asgVars, askVars>>

RefreshRaceNext ==
    \/ \E e \in SessionEmployees :
           post_login_hdms([employee_code |-> LoginCode[e], password |-> "Secret1"])
    \/ \E f \in RefreshRequests : \E token \in issued : RefreshRead(f, token)
    \/ \E f \in RefreshRequests : RefreshIssue(f)
    \/ \E bearer \in issued : logout(bearer, bearer)

SpecRefreshRace == SessionInit /\ [][RefreshRaceNext]_vars

\* C29: no step of a refresh request issues an access token for a refresh
\* token whose row a completed logout has marked revoked.
C29_RefreshAtomicWithLogout ==
    [][\A f \in RefreshRequests :
          (refresh_pc[f] = "read" /\ refresh_pc'[f] = "idle" /\ issued' # issued) =>
              refresh_read[f].token \notin revoked_at_logout]_vars

\* A refresh request that read its row after the logout is refused.
C29_Witness ==
    /\ last_call.op = "refresh"
    /\ last_call.status = 401
    /\ last_call.detail = "Token has been revoked or expired"
    /\ revoked_at_logout # {}
    /\ \A r \in refresh_tokens : r.is_revoked


-----------------------------------------------------------------------------
(* What a logout request changes for the other identities *)

\* LogoutRequest(Schema): access_token, any string the client sends.  Here:
\* any access token the service has signed, for whomever.
LogoutRequest == {t \in issued : Get(t.payload, "token_type", "") = "access"}

LogoutNext ==
    \/ \E e \in Employees, pw \in Passwords :
           post_login_hdms([employee_code |-> LoginCode[e], password |-> pw])
    \/ \E token \in issued : refresh_token(token)
    \/ \E bearer \in issued : \E body \in LogoutRequest : logout(bearer, body)
    \/ \E bearer \in issued : get_current_user(bearer)

SpecLogout == StoreInit /\ [][LogoutNext]_vars

\* The identity a token was issued to.
BelongsTo(token) == token.payload.user_id

\* C30: a logout request adds to the blacklist only tokens of the identity
\* that sent it, and revokes no RefreshToken row of another identity.
C30_LogoutTouchesOwnTokensOnly ==
    [][last_call'.op = "logout" =>
          /\ \A b \in blacklist' \ blacklist : BelongsTo(b.token) = last_call'.who
          /\ \A r \in refresh_tokens :
                 r.employee # last_call'.who => r \in refresh_tokens']_vars

\* The half on the sessions alone: the rows of the other identities stay.
C30_OtherSessionsKept ==
    [][last_call'.op = "logout" =>
          \A r \in refresh_tokens :
              r.employee # last_call'.who => r \in refresh_tokens']_vars

\* e1 has logged out naming the access token of e2: that token is on the
\* blacklist, the session of e2 is not revoked.
C30_Witness ==
    /\ last_call.op = "logout"
    /\ last_call.who = "e1"
    /\ last_call.status = 200
    /\ \E b \in blacklist : BelongsTo(b.token) = "e2"
    /\ \E r \in refresh_tokens : r.employee = "e2" /\ ~r.is_revoked
    /\ \A r \in refresh_tokens : r.employee = "e1" => r.is_revoked

====
